---- MODULE Spec2Model ----
(***************************************************************************)
(* Model of the event-driven backtest engine (engine/event_backtest_engine *)
(* .py, run_event_backtest_v2 with _safe_get_candle), of the option data   *)
(* reader it calls (data/options_reader.py, load_option_data) and of the   *)
(* leg execution engine (engine/execution.py, execute_option_leg), and of   *)
(* the batch driver (run_backtest.py, main) with the per-leg engine it      *)
(* calls (engine/backtest_engine.py).  The event engine runs with a minute  *)
(* PnL tracker attached (analytics/minute_pnl_tracker.py).                  *)
(*                                                                         *)
(* Times are minutes of the trading day, numbered 1..MaxT.  An option      *)
(* series is the set of minutes at which it has a candle; an empty set is  *)
(* a strike/type with no rows for the day.  Prices are integers.           *)
(***************************************************************************)
EXTENDS Integers, Sequences, FiniteSets, TLC

\* ---------------------------------------------------------------------
\* Bounds of the model
\* ---------------------------------------------------------------------
MaxT == 5
MaxLegs == 2
MaxIntents == 2
MaxXT == 4
MaxCandles == 3
MaxRuns == 2
MaxDates == 3

\* ---------------------------------------------------------------------
\* Program constants (minutes stand for the clock times of the source)
\* ---------------------------------------------------------------------
ENTRY_TIME == 2
EXIT_TIME == 5
STRIKE_GAP == 50
BATCH_SIZE == 2
R == 100
max_iterations == 20

Minutes == 1..MaxT
OptionTypes == {"CE", "PE"}
Strikes == {100}

VARIABLES
    engine,           \* which engine runs: "event" or "legacy" (execute_option_leg)
    strategy,         \* strategy object: "any" (the shared contract) or a class
    index_df,         \* minutes at which the index has a candle
    index_price,      \* minute -> index price handed to on_minute
    opt_data,         \* option type -> minutes at which that series has a candle
    expiry_cache,     \* _EXPIRY_CACHE: the cached expiry frame, or NoCache
    run,              \* number of the current run over the same day
    first_run,        \* history: what the first run over the day returned
    pc,               \* position in run_event_backtest_v2
    candle_time,      \* index candle being processed (0 before the loop)
    pending_entries,  \* ENTER intents waiting for the next candle's Open
    actions,          \* intents returned by on_minute, not yet processed
    open_legs,        \* the open-leg book, in insertion order
    trades,           \* trade records of the day
    warnings,         \* warning records of the day
    error,            \* exception that ended the day ("" when none)
    eod_i,            \* position of the end-of-day loop in open_legs
    leg_counter,      \* strategy: next leg number
    strat_legs,       \* strategy: leg ids it holds (self.legs)
    self_legs,        \* VolatilityStraddles: self.legs with their stop levels
    initial_index_open, \* VolatilityStraddles: self.initial_index_open (0: None)
    volatility_map,   \* VolatilityStraddles: self.volatility_map (date -> value)
    volatility,       \* VolatilityStraddles: self.volatility (0: None)
    weekday,          \* market_context["day"]: the weekday of the trade date
    straddles,        \* DynamicATM100Range, DynamicATMInventory: self.straddles
    straddle_counter, \* DynamicATM100Range: next straddle number
    processed_levels, \* DynamicATM100Range: self.processed_levels
    on_minute_calls,  \* history: the on_minute calls of the run, with results
    placed,           \* history: leg ids in the order they were put in the book
    lookups,          \* history: every _safe_get_candle call of the engine
    pnl_rows,         \* MinutePnLTracker.pnl_rows
    issue_rows,       \* MinutePnLTracker.issue_rows
    realized_pnl,     \* MinutePnLTracker._realized_pnl
    df,               \* execute_option_leg: option candles, in time order
    intended_entry_time,
    exit_time,
    sl_pct,           \* stop loss in percent
    qty,              \* -1 short, +1 long
    xpc,              \* position in execute_option_leg
    xi,               \* position of the stop-loss loop in df
    result,           \* execute_option_leg: locals and returned dictionary
    n_dates,          \* main: len(trading_dates); the dates are 1..n_dates
    dpc,              \* position in main / run_multi_day_backtest
    batch_start,      \* main: batch_start
    batch_dates,      \* main: batch_dates
    all_trades,       \* main: all_trades
    all_errors,       \* main: all_errors
    date_i,           \* run_multi_day_backtest: position in dates
    md_trades,        \* run_multi_day_backtest: all_trades
    md_errors,        \* run_multi_day_backtest: all_errors
    cur_day,          \* run_single_day_backtest: the day's inputs
    leg_i,            \* run_single_day_backtest: position in strikes.items()
    sd_trades,        \* run_single_day_backtest: trades
    sd_errors,        \* run_single_day_backtest: errors
    cache_keys,       \* dates with a key in _EXPIRY_CACHE (driver runs)
    md_days,          \* history: the days the current multi-day call started
    clear_log         \* history: the clear_cache() calls of main

driver_vars == <<n_dates, dpc, batch_start, batch_dates, all_trades,
                 all_errors, date_i, md_trades, md_errors, cur_day, leg_i,
                 sd_trades, sd_errors, cache_keys, md_days, clear_log>>

tracker_vars == <<pnl_rows, issue_rows, realized_pnl>>

day_vars == <<strategy, index_df, index_price, opt_data, expiry_cache, run,
              first_run, pc, candle_time, pending_entries,
              actions, open_legs, trades, warnings, eod_i, leg_counter,
              strat_legs, self_legs, initial_index_open, volatility_map,
              weekday,
              volatility, straddles, straddle_counter, processed_levels,
              on_minute_calls, placed, lookups, tracker_vars>>

event_vars == <<day_vars, driver_vars>>

exec_vars == <<df, intended_entry_time, exit_time, sl_pct, qty, xpc, xi, result>>

vars == <<engine, error, event_vars, exec_vars>>

\* ---------------------------------------------------------------------
\* Input data
\* ---------------------------------------------------------------------
\* Candle sets the day's data is drawn from.  The index has every minute, or
\* every minute but one of the minutes the day loop processes.  An option
\* series has every minute, or lacks one processed minute, or starts after the
\* entry minute, or has a single late candle, or has no row at all.
ProcessedMinutes == ENTRY_TIME..(EXIT_TIME - 1)
GappedSeries == {Minutes \ {m} : m \in ProcessedMinutes} \cup {Minutes}
LateSeries == {(ENTRY_TIME + 1)..MaxT, {MaxT}}
IndexSeries == GappedSeries
OptionSeries == GappedSeries \cup LateSeries \cup {{}}

\* Option candle prices: a fixed table over (type, minute) that rises and
\* falls through the day, with Close different from Open.
TypeOffset(type) == IF type = "CE" THEN 0 ELSE 3
OptOpen(type, t) == 50 + 7 * ((3 * t) % 5) + TypeOffset(type)
OptClose(type, t) == OptOpen(type, t) + 2 * ((t % 3) - 1) + 1

\* Index price paths: the price handed to on_minute (the candle's Open at
\* ENTRY_TIME, its Close afterwards) stays at 100 until minute b, moves by
\* 10 at b, and then either stays there or swings to the other side.
IndexPath(b, dir, back) ==
    [t \in Minutes |->
        IF t < b THEN 100
        ELSE IF t = b \/ ~back THEN 100 + 10 * dir
        ELSE 100 - 10 * dir]

IndexPaths ==
    {IndexPath(b, dir, back) :
        b \in ENTRY_TIME..EXIT_TIME, dir \in {-1, 1}, back \in BOOLEAN}

FlatPath == [t \in Minutes |-> 100]

\* trade_date of the run, with two earlier dates and one later date around it
trade_date == 3
Dates == 1..4

\* The volatility table: any set of dates, each with the value the CSV has
\* for it (the range added to the index price).
CsvVolatility(d) == d + 2
VolatilityMaps == {[d \in S |-> CsvVolatility(d)] : S \in SUBSET Dates}
OwnDateMap == [d \in {trade_date} |-> CsvVolatility(d)]

\* Index price paths for the 100-point range strategy: 300 until minute b,
\* then one or two range levels above or below; or one level away at b and
\* back across the first level afterwards.  FarPath moves more levels above
\* than one call resolves.
RangePath(b, to, back) ==
    [t \in Minutes |-> IF t < b THEN 300 ELSE IF t = b THEN to ELSE back]

FarAbove == 300 + (max_iterations + 1) * R + STRIKE_GAP

RangePaths ==
    {RangePath(b, to, to) :
        b \in (ENTRY_TIME + 1)..EXIT_TIME,
        to \in {50, 150, 450, 550}}
    \cup {RangePath(ENTRY_TIME + 1, 450, 250),
          RangePath(ENTRY_TIME + 1, 150, 350)}

FarPath == RangePath(ENTRY_TIME + 1, FarAbove, FarAbove)

\* Index price paths for DynamicATMInventory: the range paths, and moves of
\* 80 points, which leave the band of some weekdays and not of others.
InventoryPaths ==
    RangePaths
    \cup {RangePath(b, to, to) :
             b \in (ENTRY_TIME + 1)..EXIT_TIME, to \in {220, 380}}

Weekdays == {"MONDAY", "TUESDAY", "WEDNESDAY", "THURSDAY", "FRIDAY"}

Strategies == {"any", "VolatilityStraddles", "DynamicATM100Range"}

\* the two strategies that read the volatility table
VolatilityStrategies == {"VolatilityStraddles", "VolatilityStrangles"}

SetMax(S) == CHOOSE x \in S : \A y \in S : y <= x
SetMin(S) == CHOOSE x \in S : \A y \in S : x <= y

\* ---------------------------------------------------------------------
\* data/options_reader.py
\* ---------------------------------------------------------------------
\* load_option_data raises ValueError when the strike/type has no rows.
load_option_data_raises(data, type) == data[type] = {}

\* _EXPIRY_CACHE for the (trade_date, expiry) key of the day: NoCache while
\* the key is absent, else the expiry frame stored under it.
NoCache == [type \in {} |-> {}]

\* expiry_df = _EXPIRY_CACHE[cache_key], loaded from disk when the key is
\* absent (lines 138-152); the frame is stored before the strike/type filter.
ExpiryFrame(cache, disk) == IF cache = NoCache THEN disk ELSE cache

\* ---------------------------------------------------------------------
\* _safe_get_candle(opt_df, target_time, fallback="last")
\* ---------------------------------------------------------------------
safe_get_candle(times, target_time) ==
    IF target_time \in times
    THEN [found |-> TRUE, actual_time |-> target_time, warning_msg |-> "none"]
    ELSE LET before_target == {t \in times : t <= target_time}
         IN  IF before_target /= {}
             THEN [found |-> TRUE, actual_time |-> SetMax(before_target),
                   warning_msg |-> "last before target"]
             ELSE IF times /= {}
                  THEN [found |-> TRUE, actual_time |-> SetMax(times),
                        warning_msg |-> "last available"]
                  ELSE [found |-> FALSE, actual_time |-> 0,
                        warning_msg |-> "no fallback"]

\* ---------------------------------------------------------------------
\* Strategy (the on_minute contract shared by the shipped event strategies)
\* ---------------------------------------------------------------------
\* Every shipped strategy numbers its legs with itertools.count(1), emits
\* nothing before ENTRY_TIME, and only exits legs of its own list self.legs,
\* which already holds the legs it asked to enter earlier in the same call.
EnterIntentSameId(id, strike, type, T) ==
    [action |-> "ENTER", leg_id |-> 1, strike |-> strike, type |-> type,
     reason |-> "", g_emit |-> T]

EnterIntent(id, strike, type, T) ==
    [action |-> "ENTER", leg_id |-> id, strike |-> strike, type |-> type,
     reason |-> "", g_emit |-> T]

ExitIntent(id, T) ==
    [action |-> "EXIT", leg_id |-> id, strike |-> 0, type |-> "",
     reason |-> "UPPER_BREACH", g_emit |-> T]

StrategyStep(st, T) ==
    {[acts |-> Append(st.acts, EnterIntent(st.leg_counter, k[1], k[2], T)),
      leg_counter |-> st.leg_counter + 1,
      legs |-> st.legs \cup {st.leg_counter}] :
        k \in {x \in Strikes \X OptionTypes : st.leg_counter <= MaxLegs}}
    \cup
    {[acts |-> Append(st.acts, ExitIntent(id, T)),
      leg_counter |-> st.leg_counter,
      legs |-> st.legs \ {id}] : id \in st.legs}

RECURSIVE StrategyRuns(_, _, _)
StrategyRuns(n, st, T) ==
    IF n = 0 THEN {st}
    ELSE LET shorter == StrategyRuns(n - 1, st, T)
         IN  shorter \cup
             UNION {StrategyStep(r, T) : r \in {x \in shorter : Len(x.acts) = n - 1}}

on_minute(counter, legs, T) ==
    IF T < ENTRY_TIME
    THEN {[acts |-> <<>>, leg_counter |-> counter, legs |-> legs]}
    ELSE StrategyRuns(MaxIntents,
                      [acts |-> <<>>, leg_counter |-> counter, legs |-> legs], T)

\* ---------------------------------------------------------------------
\* strategy/volatility_straddles.py: VolatilityStraddles
\* ---------------------------------------------------------------------
\* round(price / STRIKE_GAP) * STRIKE_GAP, with Python's round-half-to-even
round_strike(price) ==
    LET q == price \div STRIKE_GAP
        r == price % STRIKE_GAP
    IN  IF 2 * r < STRIKE_GAP THEN q * STRIKE_GAP
        ELSE IF 2 * r > STRIKE_GAP THEN (q + 1) * STRIKE_GAP
        ELSE IF q % 2 = 0 THEN q * STRIKE_GAP ELSE (q + 1) * STRIKE_GAP

StraddleLeg(id, type, sl) == [leg_id |-> id, type |-> type, sl_index |-> sl]

get_volatility_earliest(map, date) ==
    IF date \in DOMAIN map THEN map[date]
    ELSE LET dates == {d \in DOMAIN map : d < date}
         IN  IF dates /= {} THEN map[SetMin(dates)] ELSE 0

\* _get_volatility_for_date (lines 64-73); 0 stands for None, the values of
\* the table are positive
get_volatility_for_date(map, date) ==
    IF date \in DOMAIN map THEN map[date]
    ELSE LET dates == {d \in DOMAIN map : d < date}
         IN  IF dates /= {} THEN map[SetMax(dates)] ELSE 0

on_day_start_keeps_legs(st) == st

\* on_day_start: self.legs = [], self.leg_counter = itertools.count(1),
\* self.initial_index_open = None,
\* self.volatility = self._get_volatility_for_date(trade_date)
on_day_start(st) ==
    [legs |-> <<>>, leg_counter |-> 1, initial_index_open |-> 0,
     volatility |-> get_volatility_for_date(st.volatility_map, trade_date),
     volatility_map |-> st.volatility_map]

\* if self.volatility is None: raise ValueError (lines 58-59)
on_day_start_raises(self) == self.volatility = 0

create_initial_straddle(st, price, T) ==
    LET atm_strike == round_strike(price)
        ce_leg == StraddleLeg(st.leg_counter, "CE", price + st.volatility)
        pe_leg == StraddleLeg(st.leg_counter + 1, "PE", price - st.volatility)
    IN  [st EXCEPT
           !.legs = @ \o <<ce_leg, pe_leg>>,
           !.leg_counter = @ + 2,
           !.acts = @ \o <<EnterIntent(ce_leg.leg_id, atm_strike, "CE", T),
                           EnterIntent(pe_leg.leg_id, atm_strike, "PE", T)>>]

create_no_leg(st, opt_type, price, T) == st

\* _create_new_atm_leg (lines 187-226)
create_new_atm_leg(st, opt_type, price, T) ==
    LET new_sl == IF opt_type = "CE" THEN price + st.volatility
                  ELSE price - st.volatility
        new_leg == StraddleLeg(st.leg_counter, opt_type, new_sl)
    IN  [st EXCEPT
           !.legs = Append(@, new_leg),
           !.leg_counter = @ + 1,
           !.acts = Append(@, EnterIntent(new_leg.leg_id, round_strike(price),
                                          opt_type, T))]

breached(leg, price) ==
    \/ leg.type = "CE" /\ price > leg.sl_index
    \/ leg.type = "PE" /\ price < leg.sl_index

exit_leg(leg, T) ==
    [ExitIntent(leg.leg_id, T) EXCEPT
        !.reason = IF leg.type = "CE" THEN "CE_SL_HIT" ELSE "PE_SL_HIT"]

\* for leg in list(self.legs): ... (lines 90-107)
RECURSIVE BreachLoop(_, _, _, _, _)
BreachLoop(snapshot, i, st, price, T) ==
    IF i > Len(snapshot) THEN st
    ELSE LET leg == snapshot[i]
         IN  IF breached(leg, price)
             THEN BreachLoop(snapshot, i + 1,
                      create_new_atm_leg(
                          [st EXCEPT !.acts = Append(@, exit_leg(leg, T)),
                                     !.exited_legs = @ \cup {leg}],
                          leg.type, price, T),
                      price, T)
             ELSE BreachLoop(snapshot, i + 1, st, price, T)

\* VolatilityStraddles.on_minute (lines 75-112)
straddles_on_minute(self, T, price) ==
    LET st == [legs |-> self.legs, leg_counter |-> self.leg_counter,
               initial_index_open |-> self.initial_index_open,
               volatility |-> self.volatility,
               acts |-> <<>>, exited_legs |-> {}]
    IN  IF st.legs = <<>> /\ T >= ENTRY_TIME
        THEN LET first == IF st.initial_index_open = 0 THEN price
                          ELSE st.initial_index_open
             IN  create_initial_straddle(
                     [st EXCEPT !.initial_index_open = first], first, T)
        ELSE LET r == BreachLoop(st.legs, 1, st, price, T)
             IN  [r EXCEPT !.legs = SelectSeq(@, LAMBDA l : l \notin r.exited_legs)]

\* ---------------------------------------------------------------------
\* strategy/volatility_strangles.py: VolatilityStrangles
\* ---------------------------------------------------------------------
\* _create_initial_strangle (lines 137-201): strikes at the rounded stops
create_initial_strangle(st, price, T) ==
    LET ce_sl_before_round == price + st.volatility
        pe_sl_before_round == price - st.volatility
        ce_leg == StraddleLeg(st.leg_counter, "CE", ce_sl_before_round)
        pe_leg == StraddleLeg(st.leg_counter + 1, "PE", pe_sl_before_round)
    IN  [st EXCEPT
           !.legs = @ \o <<ce_leg, pe_leg>>,
           !.leg_counter = @ + 2,
           !.acts = @ \o <<EnterIntent(ce_leg.leg_id,
                                       round_strike(ce_sl_before_round),
                                       "CE", T),
                           EnterIntent(pe_leg.leg_id,
                                       round_strike(pe_sl_before_round),
                                       "PE", T)>>]

\* _create_new_leg (lines 203-245): the stop moves on from the old stop
create_new_leg(st, old_leg, price, T) ==
    LET opt_type == old_leg.type
        new_sl_before_round ==
            IF opt_type = "CE" THEN old_leg.sl_index + st.volatility
            ELSE old_leg.sl_index - st.volatility
        new_leg == StraddleLeg(st.leg_counter, opt_type, new_sl_before_round)
    IN  [st EXCEPT
           !.legs = Append(@, new_leg),
           !.leg_counter = @ + 1,
           !.acts = Append(@, EnterIntent(new_leg.leg_id,
                                          round_strike(new_sl_before_round),
                                          opt_type, T))]

\* for leg in list(self.legs): ... (lines 102-121)
RECURSIVE StrangleBreachLoop(_, _, _, _, _)
StrangleBreachLoop(snapshot, i, st, price, T) ==
    IF i > Len(snapshot) THEN st
    ELSE LET leg == snapshot[i]
         IN  IF breached(leg, price)
             THEN StrangleBreachLoop(snapshot, i + 1,
                      create_new_leg(
                          [st EXCEPT !.acts = Append(@, exit_leg(leg, T)),
                                     !.exited_legs = @ \cup {leg}],
                          leg, price, T),
                      price, T)
             ELSE StrangleBreachLoop(snapshot, i + 1, st, price, T)

\* VolatilityStrangles.on_minute (lines 87-127)
strangles_on_minute(self, T, price) ==
    LET st == [legs |-> self.legs, leg_counter |-> self.leg_counter,
               initial_index_open |-> self.initial_index_open,
               volatility |-> self.volatility,
               acts |-> <<>>, exited_legs |-> {}]
    IN  IF st.legs = <<>> /\ T >= ENTRY_TIME
        THEN LET first == IF st.initial_index_open = 0 THEN price
                          ELSE st.initial_index_open
             IN  create_initial_strangle(
                     [st EXCEPT !.initial_index_open = first], first, T)
        ELSE LET r == StrangleBreachLoop(st.legs, 1, st, price, T)
             IN  [r EXCEPT !.legs = SelectSeq(@, LAMBDA l : l \notin r.exited_legs)]

\* ---------------------------------------------------------------------
\* strategy/dynamic_atm_inventory.py: DynamicATMInventory
\* ---------------------------------------------------------------------
\* The range tables, in tenths of an index point; bands (upper, lower) are
\* kept in tenths too and compared with ten times the index price.
expiry_change_date == 4

before_expirychange ==
    [d \in Weekdays |->
        CASE d = "FRIDAY" -> 853 [] d = "MONDAY" -> 774 [] d = "TUESDAY" -> 1280
          [] d = "WEDNESDAY" -> 838 [] d = "THURSDAY" -> 799]

after_expirychange ==
    [d \in Weekdays |->
        CASE d = "WEDNESDAY" -> 853 [] d = "THURSDAY" -> 774
          [] d = "FRIDAY" -> 1280 [] d = "MONDAY" -> 838 [] d = "TUESDAY" -> 799]

\* on_day_start (lines 173-185): self.R
inventory_R(date, d) ==
    IF date < expiry_change_date THEN before_expirychange[d]
    ELSE after_expirychange[d]

\* _add_straddle (lines 237-282)
inventory_add_straddle(st, price, T) ==
    LET atm == round_strike(price)
        upper == 10 * price + st.R
        lower == 10 * price - st.R
        sid == st.straddle_counter
        leg(id, type) ==
            [leg_id |-> id, straddle_id |-> sid, type |-> type, strike |-> atm,
             upper |-> upper, lower |-> lower]
    IN  [st EXCEPT
           !.straddles = Append(@, [straddle_id |-> sid, ref_price |-> price,
                                    upper |-> upper, lower |-> lower]),
           !.straddle_counter = @ + 1,
           !.legs = @ \o <<leg(st.leg_counter, "CE"),
                           leg(st.leg_counter + 1, "PE")>>,
           !.leg_counter = @ + 2,
           !.acts = @ \o <<EnterIntent(st.leg_counter, atm, "CE", T),
                           EnterIntent(st.leg_counter + 1, atm, "PE", T)>>]

\* STEP A: for leg in list(self.legs) (lines 202-209)
RECURSIVE InventoryScan(_, _, _, _, _)
InventoryScan(snapshot, i, st, price, T) ==
    IF i > Len(snapshot) THEN st
    ELSE LET leg == snapshot[i]
         IN  InventoryScan(snapshot, i + 1,
                 IF leg.type = "CE" /\ 10 * price > leg.upper
                 THEN [st EXCEPT
                         !.acts = Append(@, [ExitIntent(leg.leg_id, T) EXCEPT
                                               !.reason = "UPPER_BREACH"]),
                         !.exited_legs = @ \cup {leg}]
                 ELSE IF leg.type = "PE" /\ 10 * price < leg.lower
                 THEN [st EXCEPT
                         !.acts = Append(@, [ExitIntent(leg.leg_id, T) EXCEPT
                                               !.reason = "LOWER_BREACH"]),
                         !.exited_legs = @ \cup {leg}]
                 ELSE st,
                 price, T)

first_level(levels) == levels[1]

\* latest = self.straddles[-1] (line 219)
latest(levels) == levels[Len(levels)]

\* DynamicATMInventory.on_minute (lines 189-228)
inventory_on_minute(self, T, price) ==
    LET st == [legs |-> self.legs, leg_counter |-> self.leg_counter,
               straddles |-> self.straddles,
               straddle_counter |-> self.straddle_counter, R |-> self.R,
               acts |-> <<>>, exited_legs |-> {}]
    IN  IF st.straddles = <<>> /\ T >= ENTRY_TIME
        THEN inventory_add_straddle(st, price, T)
        ELSE LET a == InventoryScan(st.legs, 1, st, price, T)
                 b == [a EXCEPT
                         !.legs = SelectSeq(@, LAMBDA l : l \notin a.exited_legs)]
             IN  IF b.straddles = <<>> THEN b
                 ELSE IF \/ 10 * price > latest(b.straddles).upper
                         \/ 10 * price < latest(b.straddles).lower
                      THEN inventory_add_straddle(b, price, T)
                      ELSE b

\* ---------------------------------------------------------------------
\* strategy/dynamic_atm_100_range.py: DynamicATM100Range
\* ---------------------------------------------------------------------
\* on_day_start (lines 22-30): every field of the day starts afresh
range_on_day_start(st) ==
    [legs |-> <<>>, straddles |-> <<>>, leg_counter |-> 1,
     straddle_counter |-> 1, processed_levels |-> {}]

RangeLeg(id, sid, type, atm) ==
    [leg_id |-> id, straddle_id |-> sid, type |-> type, strike |-> atm,
     upper |-> atm + R, lower |-> atm - R]

add_straddle_unmarked(st, atm, price, T) ==
    LET sid == st.straddle_counter
        ce_leg == RangeLeg(st.leg_counter, sid, "CE", atm)
        pe_leg == RangeLeg(st.leg_counter + 1, sid, "PE", atm)
    IN  [st EXCEPT
           !.straddles = Append(@, [straddle_id |-> sid, atm |-> atm,
                                    ref_price |-> price, upper |-> atm + R,
                                    lower |-> atm - R]),
           !.straddle_counter = @ + 1,
           !.legs = @ \o <<ce_leg, pe_leg>>,
           !.leg_counter = @ + 2,
           !.acts = @ \o <<EnterIntent(ce_leg.leg_id, atm, "CE", T),
                           EnterIntent(pe_leg.leg_id, atm, "PE", T)>>,
           !.new_entries = @ + 2]

\* _add_straddle_at_strike (lines 101-151)
add_straddle_at_strike(st, atm, price, T) ==
    LET sid == st.straddle_counter
        ce_leg == RangeLeg(st.leg_counter, sid, "CE", atm)
        pe_leg == RangeLeg(st.leg_counter + 1, sid, "PE", atm)
    IN  [st EXCEPT
           !.processed_levels = @ \cup {atm},
           !.straddles = Append(@, [straddle_id |-> sid, atm |-> atm,
                                    ref_price |-> price, upper |-> atm + R,
                                    lower |-> atm - R]),
           !.straddle_counter = @ + 1,
           !.legs = @ \o <<ce_leg, pe_leg>>,
           !.leg_counter = @ + 2,
           !.acts = @ \o <<EnterIntent(ce_leg.leg_id, atm, "CE", T),
                           EnterIntent(pe_leg.leg_id, atm, "PE", T)>>,
           !.new_entries = @ + 2]

range_exit_leg(leg, reason, T) ==
    [ExitIntent(leg.leg_id, T) EXCEPT !.reason = reason]

\* STEP A: for leg in list(self.legs) (lines 56-65)
RECURSIVE RangeScan(_, _, _, _, _)
RangeScan(snapshot, i, st, price, T) ==
    IF i > Len(snapshot) THEN st
    ELSE LET leg == snapshot[i]
         IN  RangeScan(snapshot, i + 1,
                 IF leg.type = "CE" /\ price > leg.upper
                 THEN [st EXCEPT
                         !.acts = Append(@, range_exit_leg(leg, "UPPER_BREACH", T)),
                         !.exited_legs = @ \cup {leg},
                         !.breached_levels = @ \cup {leg.upper}]
                 ELSE IF leg.type = "PE" /\ price < leg.lower
                 THEN [st EXCEPT
                         !.acts = Append(@, range_exit_leg(leg, "LOWER_BREACH", T)),
                         !.exited_legs = @ \cup {leg},
                         !.breached_levels = @ \cup {leg.lower}]
                 ELSE st,
                 price, T)

\* STEP B: for breached_level in breached_levels (lines 72-79); the levels
\* of one pass lie on one side of the price and are taken in rising order
RECURSIVE RangeAdd(_, _, _, _)
RangeAdd(levels, st, price, T) ==
    IF levels = {} THEN st
    ELSE LET level == SetMin(levels)
             atm == round_strike(level)
         IN  RangeAdd(levels \ {level},
                 IF atm \notin st.processed_levels
                 THEN add_straddle_at_strike(st, atm, price, T)
                 ELSE st,
                 price, T)

RangeIterateOnce(st, iteration, price, T) ==
    LET a == RangeScan(st.legs, 1,
                 [st EXCEPT !.exited_legs = {}, !.breached_levels = {},
                            !.new_entries = 0, !.iteration = iteration + 1],
                 price, T)
        b == [a EXCEPT !.legs = SelectSeq(@, LAMBDA l : l \notin a.exited_legs)]
    IN  RangeAdd(b.breached_levels, b, price, T)

\* while iteration < max_iterations: ... (lines 49-85)
RECURSIVE RangeIterate(_, _, _, _)
RangeIterate(st, iteration, price, T) ==
    IF iteration >= max_iterations THEN st
    ELSE LET a == RangeScan(st.legs, 1,
                      [st EXCEPT !.exited_legs = {}, !.breached_levels = {},
                                 !.new_entries = 0,
                                 !.iteration = iteration + 1],
                      price, T)
             b == [a EXCEPT
                     !.legs = SelectSeq(@, LAMBDA l : l \notin a.exited_legs)]
             c == RangeAdd(b.breached_levels, b, price, T)
         IN  IF c.new_entries = 0 THEN c
             ELSE RangeIterate(c, iteration + 1, price, T)

\* DynamicATM100Range.on_minute (lines 34-87)
range_on_minute(self, T, price) ==
    LET st == [legs |-> self.legs, leg_counter |-> self.leg_counter,
               straddles |-> self.straddles,
               straddle_counter |-> self.straddle_counter,
               processed_levels |-> self.processed_levels,
               acts |-> <<>>, exited_legs |-> {}, breached_levels |-> {},
               new_entries |-> 0, iteration |-> 0]
    IN  IF st.straddles = <<>> /\ T >= ENTRY_TIME
        THEN add_straddle_at_strike(st, round_strike(price), price, T)
        ELSE RangeIterate(st, 0, price, T)

\* ---------------------------------------------------------------------
\* run_event_backtest_v2: helpers
\* ---------------------------------------------------------------------
\* open_legs[leg_id] = {...}: a dict assignment keeps the position of an
\* existing key and appends a new one.
DictSet(book, leg) ==
    IF \E i \in 1..Len(book) : book[i].leg_id = leg.leg_id
    THEN [i \in 1..Len(book) |->
            IF book[i].leg_id = leg.leg_id THEN leg ELSE book[i]]
    ELSE Append(book, leg)

InBook(book, id) == \E i \in 1..Len(book) : book[i].leg_id = id

BookGet(book, id) == book[CHOOSE i \in 1..Len(book) : book[i].leg_id = id]

\* open_legs.pop(leg_id)
BookPopKeepsLeg(book, id) == book

BookPop(book, id) == SelectSeq(book, LAMBDA l : l.leg_id /= id)

NewLeg(intent, c, T) ==
    [leg_id |-> intent.leg_id, strike |-> intent.strike, type |-> intent.type,
     entry_price |-> OptOpen(intent.type, c.actual_time),
     entry_time |-> c.actual_time,
     g_fill |-> T, g_emit |-> intent.g_emit]

Warning(act, leg_id, strike, type, req, c, reason) ==
    [ACTION |-> act, STRIKE |-> strike, TYPE |-> type, REQUESTED_TIME |-> req,
     ACTUAL_TIME |-> c.actual_time, WARNING |-> c.warning_msg,
     EXIT_REASON |-> reason, g_leg_id |-> leg_id]

Lookup(act, type, req, c) ==
    [action |-> act, type |-> type, requested |-> req, found |-> c.found,
     actual |-> c.actual_time, warned |-> c.warning_msg /= "none"]

PnlUnsigned(entry_price, exit_price) == exit_price - entry_price

\* pnl = (exit_price - leg["entry_price"]) * -1
Pnl(entry_price, exit_price) == (exit_price - entry_price) * (-1)

Trade(leg, c, reason, T) ==
    LET exit_price == OptClose(leg.type, c.actual_time)
    IN  [ENTRY_TIME |-> leg.entry_time, ENTRY_PRICE |-> leg.entry_price,
         EXIT_TIME |-> c.actual_time, EXIT_PRICE |-> exit_price,
         EXIT_REASON |-> reason, STRIKE |-> leg.strike, TYPE |-> leg.type,
         QTY |-> -1, PNL |-> Pnl(leg.entry_price, exit_price),
         g_leg_id |-> leg.leg_id, g_exit |-> T,
         g_fill |-> leg.g_fill, g_emit |-> leg.g_emit]

\* One pass of the body of "for pending in pending_entries" (lines 147-191).
PendingOne(pending, st, data, T) ==
    IF load_option_data_raises(data, pending.type)
    THEN [st EXCEPT !.error = "NoOptionData:PENDING_ENTRY"]
    ELSE LET c == safe_get_candle(data[pending.type], T)
             lk == Append(st.lookups, Lookup("PENDING_ENTRY", pending.type, T, c))
         IN  IF ~c.found
             THEN [st EXCEPT !.lookups = lk,
                     !.warnings = Append(@, Warning("PENDING_ENTRY",
                                     pending.leg_id, pending.strike, pending.type, T, c, ""))]
             ELSE [st EXCEPT !.lookups = lk,
                     !.warnings = IF c.warning_msg /= "none"
                                  THEN Append(@, Warning("PENDING_ENTRY",
                                         pending.leg_id, pending.strike, pending.type, T, c, ""))
                                  ELSE @,
                     !.open_legs = DictSet(@, NewLeg(pending, c, T)),
                     !.placed = Append(@, pending.leg_id)]

RECURSIVE PendingLoop(_, _, _, _, _)
PendingLoop(pend, i, st, data, T) ==
    IF i > Len(pend) \/ st.error /= ""
    THEN st
    ELSE PendingLoop(pend, i + 1, PendingOne(pend[i], st, data, T),
                     data, T)

\* trades.sort(key = (DATE, ENTRY_TIME, TYPE)): a stable sort.
TypeRank(type) == IF type = "CE" THEN 0 ELSE 1

SortKeyTypeOnly(a, b) == TypeRank(a.TYPE) <= TypeRank(b.TYPE)

SortKeyLeq(a, b) ==
    \/ a.ENTRY_TIME < b.ENTRY_TIME
    \/ a.ENTRY_TIME = b.ENTRY_TIME /\ TypeRank(a.TYPE) <= TypeRank(b.TYPE)

RECURSIVE InsertSorted(_, _)
InsertSorted(sorted, x) ==
    IF sorted = <<>> THEN <<x>>
    ELSE IF SortKeyLeq(sorted[Len(sorted)], x)
         THEN Append(sorted, x)
         ELSE Append(InsertSorted(SubSeq(sorted, 1, Len(sorted) - 1), x),
                     sorted[Len(sorted)])

RECURSIVE SortTrades(_)
SortTrades(ts) ==
    IF ts = <<>> THEN <<>>
    ELSE InsertSorted(SortTrades(SubSeq(ts, 1, Len(ts) - 1)), ts[Len(ts)])

\* eod_time = EXIT_TIME - 1 minute (lines 353-354)
eod_time == EXIT_TIME - 1

\* ---------------------------------------------------------------------
\* analytics/minute_pnl_tracker.py: MinutePnLTracker
\* ---------------------------------------------------------------------
\* get_close_at_time(trade_date, expiry_date, strike, option_type,
\* candle_time): the Close of the option's candle stamped candle_time, or
\* None when the series has no candle at that minute.
get_close_at_time(frame, type, T) ==
    IF T \in frame[type]
    THEN [found |-> TRUE, close |-> OptClose(type, T)]
    ELSE [found |-> FALSE, close |-> 0]

new_day_keeps_realized(realized) == realized

\* new_day: self._realized_pnl = 0.0
new_day(realized) == 0

add_realized_twice(realized, pnl) == realized + pnl + pnl

\* add_realized: self._realized_pnl += pnl
add_realized(realized, pnl) == realized + pnl

IssueRow(T, name, leg) ==
    [Date |-> trade_date, Time |-> T, Strategy |-> name, LegID |-> leg.leg_id,
     Strike |-> leg.strike, Type |-> leg.type]

PnlRow(T, name, pnl) ==
    [Date |-> trade_date, Time |-> T, Strategy |-> name, PnL |-> pnl]

MtmTermLong(entry_price, close) == close - entry_price

\* mtm_pnl += entry_price - close
MtmTerm(entry_price, close) == entry_price - close

\* for leg_id, leg in open_legs.items(): ... (lines 44-71)
RECURSIVE RecordLoop(_, _, _, _, _, _)
RecordLoop(book, i, st, frame, T, name) ==
    IF i > Len(book) THEN st
    ELSE LET leg == book[i]
             c == get_close_at_time(frame, leg.type, T)
         IN  RecordLoop(book, i + 1,
                 IF ~c.found
                 THEN [st EXCEPT !.missing = Append(@, IssueRow(T, name, leg))]
                 ELSE [st EXCEPT !.mtm_pnl = @ + MtmTerm(leg.entry_price, c.close)],
                 frame, T, name)

record_keeps_partial(tr, book, frame, T, name) ==
    LET st == RecordLoop(book, 1, [mtm_pnl |-> 0, missing |-> <<>>],
                         frame, T, name)
    IN  [tr EXCEPT !.issue_rows = @ \o st.missing,
                   !.pnl_rows = Append(@, PnlRow(T, name,
                                           tr.realized_pnl + st.mtm_pnl))]

\* MinutePnLTracker.record (lines 38-82); PnL values are whole numbers, so
\* round(..., 4) leaves them as they are
record(tr, book, frame, T, name) ==
    LET st == RecordLoop(book, 1, [mtm_pnl |-> 0, missing |-> <<>>],
                         frame, T, name)
    IN  IF st.missing /= <<>>
        THEN [tr EXCEPT !.issue_rows = @ \o st.missing]
        ELSE [tr EXCEPT !.pnl_rows = Append(@, PnlRow(T, name,
                                              tr.realized_pnl + st.mtm_pnl))]

SnapshotAlways(book) == TRUE

\* if minute_pnl_tracker is not None and open_legs: (line 340), with the
\* tracker attached
Snapshot(book) == book /= <<>>

\* ---------------------------------------------------------------------
\* engine/execution.py: execute_option_leg
\* ---------------------------------------------------------------------
XMinutes == 1..MaxXT
SlPcts == {10, 20}

\* Candle shapes of the input dataframes: <<Open, High, Low, Close>>.
CandleShapes ==
    {<<100, 105, 95, 101>>, <<100, 110, 96, 108>>,
     <<100, 104, 90, 93>>, <<100, 120, 80, 99>>}

Candle(t, shape) ==
    [time |-> t, Open |-> shape[1], High |-> shape[2], Low |-> shape[3],
     Close |-> shape[4]]

RECURSIVE FrameOf(_, _)
FrameOf(S, f) ==
    IF S = {} THEN <<>>
    ELSE LET t == SetMax(S)
         IN  Append(FrameOf(S \ {t}, f), Candle(t, f[t]))

\* Dataframes with a sorted DatetimeIndex of at most MaxCandles candles.
Dataframes ==
    UNION {{FrameOf(S, f) : f \in [S -> CandleShapes]} :
             S \in {X \in SUBSET XMinutes : Cardinality(X) <= MaxCandles}}

NoResult ==
    [entry_time |-> 0, entry_price |-> 0, entry_delayed |-> FALSE,
     entry_delay_minutes |-> 0, exit_time |-> 0, exit_price |-> 0,
     exit_reason |-> "", sl_price_x100 |-> 0, pnl |-> 0]

EligibleStrict(frame, entry) == {i \in 1..Len(frame) : frame[i].time > entry}

\* eligible = df[df.index.time >= entry_time], as positions of df
Eligible(frame, entry) == {i \in 1..Len(frame) : frame[i].time >= entry}

ExitRowsNoLimit(frame, entry, exit) == Eligible(frame, entry)

\* exit_row = eligible[eligible.index.time <= exit_time], as positions of df
ExitRows(frame, entry, exit) ==
    {i \in Eligible(frame, entry) : frame[i].time <= exit}

\* sl_price = entry_price * (1 +/- sl_pct), kept in hundredths
SlPrice(entry_price, pct, q) ==
    IF q < 0 THEN entry_price * (100 + pct) ELSE entry_price * (100 - pct)

sl_check_strict(row, sl_x100, q) ==
    IF q < 0 THEN row.High * 100 > sl_x100 ELSE row.Low * 100 < sl_x100

sl_check(row, sl_x100, q) ==
    IF q < 0 THEN row.High * 100 >= sl_x100 ELSE row.Low * 100 <= sl_x100

\* lines 34-76: validation, entry and stop-loss level
ExecEntry ==
    /\ engine = "legacy" /\ xpc = "start"
    /\ IF df = <<>>
       THEN /\ xpc' = "raised" /\ error' = "EmptyDataframe"
            /\ UNCHANGED <<xi, result>>
       ELSE LET eligible == Eligible(df, intended_entry_time)
            IN  IF eligible = {}
                THEN /\ xpc' = "raised" /\ error' = "NoEntryCandle"
                     /\ UNCHANGED <<xi, result>>
                ELSE LET entry_row == df[SetMin(eligible)]
                         delayed == entry_row.time /= intended_entry_time
                     IN  /\ result' = [result EXCEPT
                               !.entry_time = entry_row.time,
                               !.entry_price = entry_row.Open,
                               !.entry_delayed = delayed,
                               !.entry_delay_minutes =
                                   IF delayed
                                   THEN entry_row.time - intended_entry_time
                                   ELSE 0,
                               !.exit_reason = "TIME_EXIT",
                               !.sl_price_x100 = SlPrice(entry_row.Open, sl_pct, qty)]
                         /\ xi' = SetMin(eligible)
                         /\ xpc' = "monitor"
                         /\ UNCHANGED error
    /\ UNCHANGED <<engine, event_vars, df, intended_entry_time, exit_time,
                   sl_pct, qty>>

\* lines 85-97: one pass of the stop-loss monitoring loop
ExecMonitor ==
    /\ engine = "legacy" /\ xpc = "monitor"
    /\ IF xi > Len(df) \/ df[xi].time > exit_time
       THEN /\ xpc' = "time_exit"
            /\ UNCHANGED <<xi, result>>
       ELSE IF sl_check(df[xi], result.sl_price_x100, qty)
            THEN /\ result' = [result EXCEPT
                       !.exit_price = IF qty < 0 THEN df[xi].High ELSE df[xi].Low,
                       !.exit_time = df[xi].time,
                       !.exit_reason = "SL_HIT"]
                 /\ xpc' = "pnl"
                 /\ UNCHANGED xi
            ELSE /\ xi' = xi + 1
                 /\ UNCHANGED <<xpc, result>>
    /\ UNCHANGED <<engine, error, event_vars, df, intended_entry_time,
                   exit_time, sl_pct, qty>>

\* lines 102-110: time exit when the stop loss was not hit
ExecTimeExit ==
    /\ engine = "legacy" /\ xpc = "time_exit"
    /\ LET exit_row == ExitRows(df, intended_entry_time, exit_time)
       IN  IF exit_row = {}
           THEN /\ xpc' = "raised" /\ error' = "NoExitCandle"
                /\ UNCHANGED result
           ELSE LET last_row == df[SetMax(exit_row)]
                IN  /\ result' = [result EXCEPT
                          !.exit_price = last_row.Close,
                          !.exit_time = last_row.time]
                    /\ xpc' = "pnl"
                    /\ UNCHANGED error
    /\ UNCHANGED <<engine, event_vars, df, intended_entry_time, exit_time,
                   sl_pct, qty, xi>>

\* pnl = (exit_price - entry_price) * qty
LegPnl(entry_price, exit_price, q) == (exit_price - entry_price) * q

\* lines 117-136: P&L and the returned dictionary
ExecReturn ==
    /\ engine = "legacy" /\ xpc = "pnl"
    /\ result' = [result EXCEPT
           !.pnl = LegPnl(result.entry_price, result.exit_price, qty)]
    /\ xpc' = "returned"
    /\ UNCHANGED <<engine, error, event_vars, df, intended_entry_time,
                   exit_time, sl_pct, qty, xi>>

\* ---------------------------------------------------------------------
\* run_backtest.py (main) and engine/backtest_engine.py
\* ---------------------------------------------------------------------
\* trading_dates: the sorted dates, numbered 1..n
trading_dates(n) == [i \in 1..n |-> i]

BatchEndAll(start, n) == n

\* batch_end = min(batch_start + BATCH_SIZE, len(trading_dates))
BatchEnd(start, n) == IF start + BATCH_SIZE < n THEN start + BATCH_SIZE ELSE n

\* Day-level failures of run_single_day_backtest (lines 33-41): no index
\* data, no calendar row, no spot candle at ENTRY_TIME.
DayFailures == {"NoIndexData", "NoCalendarRow", "NoSpotCandle"}

\* strategy.get_strikes(spot_price): leg ids in dictionary order.  "HEDGE"
\* is a leg id that names neither CE nor PE.
StrikeLists == {<<"CE", "PE">>, <<"HEDGE", "PE">>}

NoDay == [date |-> 0, failure |-> "", strikes |-> <<>>, expiry_exists |-> FALSE]

\* The local option_type after the if/elif of lines 52-57 for leg i: set when
\* the leg id contains CE or PE, else left as an earlier iteration set it.
RECURSIVE option_type_local(_, _)
option_type_local(strikes, i) ==
    IF i = 0 THEN "UNKNOWN"
    ELSE IF strikes[i] \in {"CE", "PE"} THEN strikes[i]
    ELSE option_type_local(strikes, i - 1)

TradeRecord(date, leg_id, option_type) ==
    [Date |-> date, LegID |-> leg_id, OptionType |-> option_type]

ErrorRecord(date, leg_id, option_type, e) ==
    [Date |-> date, LegID |-> leg_id, OptionType |-> option_type, Error |-> e]

DayErrorAsLeg(date, e) == ErrorRecord(date, "CE", "N/A", e)

\* the day-level error record (lines 123-135)
DayError(date, e) == ErrorRecord(date, "ALL", "N/A", e)

AfterLegErrorBreak(i, n) == n + 1

\* "continue" of the per-leg handler (line 121): on to the next leg
AfterLegError(i, n) == i + 1

CacheAfterLoadAlways(keys, date, exists) == keys \cup {date}

\* load_option_data, lines 136-150: _EXPIRY_CACHE[cache_key] = expiry_df is
\* reached only when the key is cached already or _load_expiry_data found
\* rows for the trade date in a partition (exists); else ValueError
CacheAfterLoad(keys, date, exists) ==
    IF date \in keys \/ exists THEN keys \cup {date} ELSE keys

\* if expiry_df is None: raise ValueError (lines 138-148)
NoExpiryData(keys, date, exists) == date \notin keys /\ ~exists

\* for batch_start in range(0, len(trading_dates), BATCH_SIZE): the batch
\* slice and the call of run_multi_day_backtest (lines 153-168, 162-165)
DriverBatch ==
    /\ engine = "driver" /\ dpc = "batch"
    /\ IF batch_start >= n_dates
       THEN /\ dpc' = "finished"
            /\ UNCHANGED <<batch_dates, date_i, md_trades, md_errors, md_days>>
       ELSE /\ batch_dates' = SubSeq(trading_dates(n_dates), batch_start + 1,
                                     BatchEnd(batch_start, n_dates))
            /\ date_i' = 1
            /\ md_trades' = <<>>
            /\ md_errors' = <<>>
            /\ md_days' = <<>>
            /\ dpc' = "day"
    /\ UNCHANGED <<engine, error, day_vars, exec_vars, n_dates, batch_start,
                   all_trades, all_errors, cur_day, leg_i, sd_trades,
                   sd_errors, cache_keys, clear_log>>

\* for i, trade_date in enumerate(dates, 1): run_single_day_backtest up to
\* the leg loop (backtest_engine.py lines 173-184 and 28-46)
DayStart ==
    /\ engine = "driver" /\ dpc = "day"
    /\ IF date_i > Len(batch_dates)
       THEN /\ dpc' = "clear"
            /\ UNCHANGED <<cur_day, leg_i, sd_trades, sd_errors, md_days>>
       ELSE /\ \E day \in
                   {[date |-> batch_dates[date_i], failure |-> f,
                     strikes |-> <<>>, expiry_exists |-> FALSE] :
                       f \in DayFailures}
                   \cup
                   {[date |-> batch_dates[date_i], failure |-> "",
                     strikes |-> st, expiry_exists |-> x] :
                       st \in StrikeLists, x \in BOOLEAN} :
                  /\ cur_day' = day
                  /\ md_days' = Append(md_days, day)
                  /\ sd_errors' = IF day.failure = "" THEN <<>>
                                  ELSE <<DayError(day.date, day.failure)>>
            /\ sd_trades' = <<>>
            /\ leg_i' = 1
            /\ dpc' = "leg"
    /\ UNCHANGED <<engine, error, day_vars, exec_vars, n_dates, batch_start,
                   batch_dates, all_trades, all_errors, date_i, md_trades,
                   md_errors, cache_keys, clear_log>>

\* one pass of "for leg_id, strike in strikes.items()" (lines 49-121).
\* market["weekly_expiry"] is the calendar row's expiry timestamp, so
\* building the error record does not itself raise.
LegStep ==
    /\ engine = "driver" /\ dpc = "leg" /\ leg_i <= Len(cur_day.strikes)
    /\ LET leg_id == cur_day.strikes[leg_i]
           option_type == option_type_local(cur_day.strikes, leg_i)
           n == Len(cur_day.strikes)
           Fails(e) ==
               /\ sd_errors' = Append(sd_errors,
                      ErrorRecord(cur_day.date, leg_id, option_type, e))
               /\ leg_i' = AfterLegError(leg_i, n)
               /\ UNCHANGED sd_trades
       IN  IF leg_id \notin {"CE", "PE"}
           THEN Fails("NoOptionType") /\ UNCHANGED cache_keys
           ELSE /\ cache_keys' = CacheAfterLoad(cache_keys, cur_day.date,
                                                cur_day.expiry_exists)
                /\ IF NoExpiryData(cache_keys, cur_day.date,
                                   cur_day.expiry_exists)
                   THEN Fails("NoExpiryData")
                   ELSE
                   \/ Fails("NoOptionData")
                   \/ Fails("ExecutionError")
                   \/ /\ sd_trades' = Append(sd_trades,
                             TradeRecord(cur_day.date, leg_id, option_type))
                      /\ leg_i' = leg_i + 1
                      /\ UNCHANGED sd_errors
    /\ UNCHANGED <<engine, error, day_vars, exec_vars, n_dates, dpc,
                   batch_start, batch_dates, all_trades, all_errors, date_i,
                   md_trades, md_errors, cur_day, md_days, clear_log>>

\* return trades, errors; all_trades.extend(trades);
\* all_errors.extend(errors) (lines 137, 186-187)
DayReturn ==
    /\ engine = "driver" /\ dpc = "leg" /\ leg_i > Len(cur_day.strikes)
    /\ md_trades' = md_trades \o sd_trades
    /\ md_errors' = md_errors \o sd_errors
    /\ date_i' = date_i + 1
    /\ dpc' = "day"
    /\ UNCHANGED <<engine, error, day_vars, exec_vars, n_dates, batch_start,
                   batch_dates, all_trades, all_errors, cur_day, leg_i,
                   sd_trades, sd_errors, cache_keys, md_days, clear_log>>

ClearCacheKeeps ==
    /\ engine = "driver" /\ dpc = "clear"
    /\ all_trades' = all_trades \o md_trades
    /\ all_errors' = all_errors \o md_errors
    /\ clear_log' = Append(clear_log,
                           [batch |-> batch_dates, days |-> md_days,
                            cached |-> cache_keys])
    /\ batch_start' = batch_start + BATCH_SIZE
    /\ dpc' = "batch"
    /\ UNCHANGED <<engine, error, day_vars, exec_vars, n_dates, batch_dates,
                   date_i, md_trades, md_errors, cur_day, leg_i, sd_trades,
                   sd_errors, md_days, cache_keys>>

\* back in main: extend the totals and clear_cache() (lines 170-178)
ClearCache ==
    /\ engine = "driver" /\ dpc = "clear"
    /\ all_trades' = all_trades \o md_trades
    /\ all_errors' = all_errors \o md_errors
    /\ cache_keys' = {}
    /\ clear_log' = Append(clear_log,
                           [batch |-> batch_dates, days |-> md_days,
                            cached |-> cache_keys])
    /\ batch_start' = batch_start + BATCH_SIZE
    /\ dpc' = "batch"
    /\ UNCHANGED <<engine, error, day_vars, exec_vars, n_dates, batch_dates,
                   date_i, md_trades, md_errors, cur_day, leg_i, sd_trades,
                   sd_errors, md_days>>

\* ---------------------------------------------------------------------
\* run_event_backtest_v2: initial state and steps
\* ---------------------------------------------------------------------
\* The days of the model: every kind of data with a volatility table that
\* has the trade date, and every volatility table with complete data and an
\* index that breaches the CE stop and swings back.
DataDays ==
    /\ strategy \in Strategies
    /\ index_df \in IndexSeries
    /\ index_price \in (IF strategy = "any" THEN {FlatPath}
                        ELSE IF strategy = "VolatilityStraddles" THEN IndexPaths
                        ELSE RangePaths)
    /\ opt_data \in [OptionTypes -> OptionSeries]
    /\ volatility_map = OwnDateMap
    /\ weekday = "MONDAY"

\* VolatilityStrangles on complete data, over every index path
StrangleDays ==
    /\ strategy = "VolatilityStrangles"
    /\ index_df = Minutes
    /\ index_price \in IndexPaths
    /\ opt_data = [type \in OptionTypes |-> Minutes]
    /\ volatility_map = OwnDateMap
    /\ weekday = "MONDAY"

\* DynamicATM100Range on complete data, with the far index move
FarDays ==
    /\ strategy = "DynamicATM100Range"
    /\ index_df = Minutes
    /\ index_price = FarPath
    /\ opt_data = [type \in OptionTypes |-> Minutes]
    /\ volatility_map = OwnDateMap
    /\ weekday = "MONDAY"

\* DynamicATMInventory on complete data, on every weekday
InventoryDays ==
    /\ strategy = "DynamicATMInventory"
    /\ index_df = Minutes
    /\ index_price \in InventoryPaths
    /\ opt_data = [type \in OptionTypes |-> Minutes]
    /\ volatility_map = OwnDateMap
    /\ weekday \in Weekdays

TableDays ==
    /\ strategy = "VolatilityStraddles"
    /\ index_df = Minutes
    /\ index_price = IndexPath(ENTRY_TIME + 1, 1, TRUE)
    /\ opt_data = [type \in OptionTypes |-> Minutes]
    /\ volatility_map \in VolatilityMaps \ {OwnDateMap}
    /\ weekday = "MONDAY"

\* the state after strategy.on_day_start(...) and new_day (lines 116-126)
EventInit ==
    /\ DataDays \/ TableDays \/ StrangleDays \/ InventoryDays \/ FarDays
    /\ volatility = IF strategy \in VolatilityStrategies
                    THEN get_volatility_for_date(volatility_map, trade_date)
                    ELSE 0
    /\ IF strategy \in VolatilityStrategies /\ volatility = 0
       THEN pc = "raised" /\ error = "NoVolatility"
       ELSE pc = "loop" /\ error = ""

EventIdle ==
    /\ strategy = "any"
    /\ index_df = {}
    /\ index_price = FlatPath
    /\ opt_data = [type \in OptionTypes |-> {}]
    /\ volatility_map = OwnDateMap
    /\ weekday = "MONDAY"
    /\ volatility = 0
    /\ pc = "off"
    /\ error = ""

\* What a run over the day returned: (trades, warnings) or an exception.
RunOutcome ==
    [pc |-> pc, trades |-> trades, warnings |-> warnings, error |-> error,
     g_warm |-> FALSE, g_legs |-> self_legs, g_book |-> open_legs,
     g_pending |-> pending_entries, g_levels |-> processed_levels,
     g_realized |-> realized_pnl]

NoRun ==
    [pc |-> "", trades |-> <<>>, warnings |-> <<>>, error |-> "",
     g_warm |-> FALSE, g_legs |-> <<>>, g_book |-> <<>>, g_pending |-> <<>>,
     g_levels |-> {}, g_realized |-> 0]

ExecInit ==
    /\ df \in Dataframes
    /\ intended_entry_time \in XMinutes
    /\ exit_time \in XMinutes
    /\ sl_pct \in SlPcts
    /\ qty \in {-1, 1}
    /\ xpc = "start"

ExecIdle ==
    /\ df = <<>>
    /\ intended_entry_time = 0
    /\ exit_time = 0
    /\ sl_pct = 0
    /\ qty = 0
    /\ xpc = "off"

DriverInit ==
    /\ n_dates \in 1..MaxDates
    /\ dpc = "batch"

DriverIdle ==
    /\ n_dates = 0
    /\ dpc = "off"

Init ==
    /\ engine \in {"event", "legacy", "driver"}
    /\ IF engine = "event" THEN EventInit ELSE EventIdle
    /\ IF engine = "legacy" THEN ExecInit ELSE ExecIdle
    /\ IF engine = "driver" THEN DriverInit ELSE DriverIdle
    /\ batch_start = 0
    /\ batch_dates = <<>>
    /\ all_trades = <<>>
    /\ all_errors = <<>>
    /\ date_i = 1
    /\ md_trades = <<>>
    /\ md_errors = <<>>
    /\ cur_day = NoDay
    /\ leg_i = 1
    /\ sd_trades = <<>>
    /\ sd_errors = <<>>
    /\ cache_keys = {}
    /\ md_days = <<>>
    /\ clear_log = <<>>
    /\ expiry_cache = NoCache
    /\ run = 1
    /\ first_run = NoRun
    /\ self_legs = <<>>
    /\ initial_index_open = 0
    /\ straddles = <<>>
    /\ straddle_counter = 1
    /\ processed_levels = {}
    /\ on_minute_calls = <<>>
    /\ candle_time = 0
    /\ pending_entries = <<>>
    /\ actions = <<>>
    /\ open_legs = <<>>
    /\ trades = <<>>
    /\ warnings = <<>>
    /\ eod_i = 1
    /\ leg_counter = 1
    /\ strat_legs = {}
    /\ placed = <<>>
    /\ lookups = <<>>
    /\ pnl_rows = <<>>
    /\ issue_rows = <<>>
    /\ realized_pnl = new_day(0)
    /\ xi = 0
    /\ result = NoResult

input_vars == <<engine, strategy, index_df, index_price, opt_data, run,
                first_run, volatility_map, weekday, exec_vars,
                driver_vars>>
data_vars == <<input_vars, expiry_cache>>
strategy_vars == <<leg_counter, strat_legs, self_legs, initial_index_open,
                   volatility, straddles, straddle_counter, processed_levels,
                   on_minute_calls>>

PastExitLate(t) == t > EXIT_TIME

\* if candle_time >= strategy.EXIT_TIME: break
PastExit(t) == t >= EXIT_TIME

\* for ts, row in index_df.iterrows(): if candle_time >= EXIT_TIME: break
LoopNext ==
    /\ pc = "loop"
    /\ LET later == {t \in index_df : t > candle_time}
       IN  IF later = {} \/ PastExit(SetMin(later))
           THEN /\ pc' = "eod"
                /\ UNCHANGED candle_time
           ELSE /\ pc' = "pending"
                /\ candle_time' = SetMin(later)
    /\ UNCHANGED <<data_vars, strategy_vars, pending_entries, actions,
                   open_legs, trades, warnings, error, eod_i, placed, lookups,
                   tracker_vars>>

\* PROCESS PENDING ENTRIES, then pending_entries.clear()
ProcessPending ==
    /\ pc = "pending"
    /\ LET st == PendingLoop(pending_entries, 1,
                     [open_legs |-> open_legs, warnings |-> warnings,
                      lookups |-> lookups, placed |-> placed, error |-> ""],
                     ExpiryFrame(expiry_cache, opt_data), candle_time)
       IN  /\ expiry_cache' = IF pending_entries = <<>> THEN expiry_cache
                              ELSE ExpiryFrame(expiry_cache, opt_data)
           /\ open_legs' = st.open_legs
           /\ warnings' = st.warnings
           /\ lookups' = st.lookups
           /\ placed' = st.placed
           /\ error' = st.error
           /\ IF st.error /= ""
              THEN pc' = "raised" /\ UNCHANGED pending_entries
              ELSE pc' = "strategy" /\ pending_entries' = <<>>
    /\ UNCHANGED <<input_vars, strategy_vars, candle_time, actions, trades,
                   eod_i, tracker_vars>>

\* actions = strategy.on_minute(ts, index_price)
\* the strategy object's fields, and its on_minute call on this candle
RangeSelf ==
    [legs |-> self_legs, leg_counter |-> leg_counter, straddles |-> straddles,
     straddle_counter |-> straddle_counter,
     processed_levels |-> processed_levels]

RangeCall == range_on_minute(RangeSelf, candle_time, index_price[candle_time])

InventoryCall ==
    inventory_on_minute(
        [legs |-> self_legs, leg_counter |-> leg_counter,
         straddles |-> straddles, straddle_counter |-> straddle_counter,
         R |-> inventory_R(trade_date, weekday)],
        candle_time, index_price[candle_time])

OnMinute ==
    /\ pc = "strategy"
    /\ IF strategy \in VolatilityStrategies
       THEN LET self == [legs |-> self_legs, leg_counter |-> leg_counter,
                         initial_index_open |-> initial_index_open,
                         volatility |-> volatility]
                r == IF strategy = "VolatilityStraddles"
                     THEN straddles_on_minute(self, candle_time,
                                              index_price[candle_time])
                     ELSE strangles_on_minute(self, candle_time,
                                              index_price[candle_time])
            IN  /\ actions' = r.acts
                /\ leg_counter' = r.leg_counter
                /\ self_legs' = r.legs
                /\ initial_index_open' = r.initial_index_open
                /\ strat_legs' = {r.legs[i].leg_id : i \in 1..Len(r.legs)}
                /\ UNCHANGED <<straddles, straddle_counter, processed_levels>>
       ELSE IF strategy = "DynamicATM100Range"
       THEN LET r == RangeCall
            IN  /\ actions' = r.acts
                /\ leg_counter' = r.leg_counter
                /\ self_legs' = r.legs
                /\ straddles' = r.straddles
                /\ straddle_counter' = r.straddle_counter
                /\ processed_levels' = r.processed_levels
                /\ strat_legs' = {r.legs[i].leg_id : i \in 1..Len(r.legs)}
                /\ UNCHANGED initial_index_open
       ELSE IF strategy = "DynamicATMInventory"
       THEN LET r == InventoryCall
            IN  /\ actions' = r.acts
                /\ leg_counter' = r.leg_counter
                /\ self_legs' = r.legs
                /\ straddles' = r.straddles
                /\ straddle_counter' = r.straddle_counter
                /\ strat_legs' = {r.legs[i].leg_id : i \in 1..Len(r.legs)}
                /\ UNCHANGED <<initial_index_open, processed_levels>>
       ELSE /\ \E r \in on_minute(leg_counter, strat_legs, candle_time) :
                  /\ actions' = r.acts
                  /\ leg_counter' = r.leg_counter
                  /\ strat_legs' = r.legs
            /\ UNCHANGED <<self_legs, initial_index_open, straddles,
                           straddle_counter, processed_levels>>
    /\ on_minute_calls' = Append(on_minute_calls,
                                 [time |-> candle_time,
                                  price |-> index_price[candle_time],
                                  held |-> self_legs, acts |-> actions',
                                  after |-> self_legs',
                                  levels |-> straddles,
                                  iterations |->
                                      IF strategy = "DynamicATM100Range"
                                      THEN RangeCall.iteration ELSE 0])
    /\ pc' = "intents"
    /\ UNCHANGED <<data_vars, candle_time, pending_entries, open_legs, trades,
                   warnings, error, eod_i, placed, lookups, tracker_vars,
                   volatility>>

\* ENTER at ENTRY_TIME: filled on this candle (lines 203-240)
HandleEnterNow ==
    /\ pc = "intents" /\ actions /= <<>>
    /\ Head(actions).action = "ENTER"
    /\ candle_time = ENTRY_TIME
    /\ LET a == Head(actions)
           expiry_df == ExpiryFrame(expiry_cache, opt_data)
       IN  IF load_option_data_raises(expiry_df, a.type)
           THEN /\ pc' = "raised" /\ error' = "NoOptionData:ENTRY"
                /\ UNCHANGED <<actions, open_legs, warnings, placed, lookups>>
           ELSE LET c == safe_get_candle(expiry_df[a.type], candle_time)
                IN  /\ lookups' = Append(lookups, Lookup("ENTRY", a.type, candle_time, c))
                    /\ IF ~c.found
                       THEN /\ pc' = "raised" /\ error' = "NoCandle"
                            /\ UNCHANGED <<actions, open_legs, warnings, placed>>
                       ELSE /\ warnings' = IF c.warning_msg /= "none"
                                           THEN Append(warnings, Warning("ENTRY",
                                                  a.leg_id, a.strike, a.type, candle_time, c, ""))
                                           ELSE warnings
                            /\ open_legs' = DictSet(open_legs,
                                              NewLeg(a, c, candle_time))
                            /\ placed' = Append(placed, a.leg_id)
                            /\ actions' = Tail(actions)
                            /\ UNCHANGED <<pc, error>>
    /\ expiry_cache' = ExpiryFrame(expiry_cache, opt_data)
    /\ UNCHANGED <<input_vars, strategy_vars, candle_time, pending_entries,
                   trades, eod_i, tracker_vars>>

\* ENTER at any other minute: queued for the next candle (lines 241-243)
HandleEnterQueue ==
    /\ pc = "intents" /\ actions /= <<>>
    /\ Head(actions).action = "ENTER"
    /\ candle_time /= ENTRY_TIME
    /\ pending_entries' = Append(pending_entries, Head(actions))
    /\ actions' = Tail(actions)
    /\ UNCHANGED <<data_vars, strategy_vars, pc, candle_time, open_legs, trades,
                   warnings, error, eod_i, placed, lookups, tracker_vars>>

\* EXIT (lines 246-337)
HandleExit ==
    /\ pc = "intents" /\ actions /= <<>>
    /\ Head(actions).action = "EXIT"
    /\ LET a == Head(actions)
           expiry_df == ExpiryFrame(expiry_cache, opt_data)
       IN  IF ~InBook(open_legs, a.leg_id)
           THEN \* open_legs.pop raises KeyError
                /\ pc' = "raised" /\ error' = "KeyError"
                /\ UNCHANGED <<actions, open_legs, trades, warnings, lookups,
                               expiry_cache, realized_pnl>>
           ELSE LET leg == BookGet(open_legs, a.leg_id)
                IN  /\ open_legs' = BookPop(open_legs, a.leg_id)
                    /\ expiry_cache' = expiry_df
                    /\ IF load_option_data_raises(expiry_df, leg.type)
                       THEN /\ pc' = "raised" /\ error' = "NoOptionData:EXIT"
                            /\ UNCHANGED <<actions, trades, warnings, lookups,
                                           realized_pnl>>
                       ELSE LET c == safe_get_candle(expiry_df[leg.type], candle_time)
                            IN  /\ lookups' = Append(lookups,
                                        Lookup("EXIT", leg.type, candle_time, c))
                                /\ IF ~c.found
                                   THEN /\ pc' = "raised" /\ error' = "NoCandle"
                                        /\ UNCHANGED <<actions, trades, warnings,
                                                       realized_pnl>>
                                   ELSE /\ warnings' =
                                             IF c.warning_msg /= "none"
                                             THEN Append(warnings, Warning("EXIT",
                                                    leg.leg_id, leg.strike, leg.type,
                                                    candle_time, c, a.reason))
                                             ELSE warnings
                                        /\ realized_pnl' = add_realized(realized_pnl,
                                             Trade(leg, c, a.reason,
                                                   candle_time).PNL)
                                        /\ trades' = Append(trades,
                                             Trade(leg, c, a.reason,
                                                   candle_time))
                                        /\ actions' = Tail(actions)
                                        /\ UNCHANGED <<pc, error>>
    /\ UNCHANGED <<input_vars, strategy_vars, candle_time, pending_entries,
                   eod_i, placed, pnl_rows, issue_rows>>

\* 1-MIN PNL SNAPSHOT (lines 339-347) at the end of the loop body, then back
\* to the for statement
EndMinute ==
    /\ pc = "intents" /\ actions = <<>>
    /\ LET tr == IF Snapshot(open_legs)
                 THEN record([pnl_rows |-> pnl_rows, issue_rows |-> issue_rows,
                              realized_pnl |-> realized_pnl],
                             open_legs, ExpiryFrame(expiry_cache, opt_data),
                             candle_time, strategy)
                 ELSE [pnl_rows |-> pnl_rows, issue_rows |-> issue_rows,
                       realized_pnl |-> realized_pnl]
       IN  /\ pnl_rows' = tr.pnl_rows
           /\ issue_rows' = tr.issue_rows
    /\ pc' = "loop"
    /\ UNCHANGED <<data_vars, strategy_vars, candle_time, pending_entries,
                   actions, open_legs, trades, warnings, error, eod_i, placed,
                   lookups, realized_pnl>>

\* EOD EXIT: one pass of "for leg_id, leg in open_legs.items()" (lines 356-456)
EodExit ==
    /\ pc = "eod" /\ eod_i <= Len(open_legs)
    /\ LET leg == open_legs[eod_i]
           expiry_df == ExpiryFrame(expiry_cache, opt_data)
       IN  IF load_option_data_raises(expiry_df, leg.type)
           THEN /\ pc' = "raised" /\ error' = "NoOptionData:EOD_EXIT"
                /\ UNCHANGED <<trades, warnings, lookups, eod_i, realized_pnl>>
           ELSE LET c == safe_get_candle(expiry_df[leg.type], eod_time)
                IN  /\ lookups' = Append(lookups,
                                    Lookup("EOD_EXIT", leg.type, eod_time, c))
                    /\ eod_i' = eod_i + 1
                    /\ UNCHANGED <<pc, error>>
                    /\ IF ~c.found
                       THEN /\ warnings' = Append(warnings, Warning("EOD_EXIT",
                                  leg.leg_id, leg.strike, leg.type, eod_time, c, "EOD_SKIPPED"))
                            /\ UNCHANGED <<trades, realized_pnl>>
                       ELSE /\ warnings' =
                                 IF c.warning_msg /= "none"
                                 THEN Append(warnings, Warning("EOD_EXIT",
                                        leg.leg_id, leg.strike, leg.type, eod_time, c, "EOD"))
                                 ELSE warnings
                            /\ realized_pnl' = add_realized(realized_pnl,
                                 Trade(leg, c, "EOD", eod_time).PNL)
                            /\ trades' = Append(trades,
                                 Trade(leg, c, "EOD", eod_time))
    /\ expiry_cache' = ExpiryFrame(expiry_cache, opt_data)
    /\ UNCHANGED <<input_vars, strategy_vars, candle_time, pending_entries,
                   actions, open_legs, placed, pnl_rows, issue_rows>>

\* trades.sort(...); return trades, warnings (lines 461-469)
Finish ==
    /\ pc = "eod" /\ eod_i > Len(open_legs)
    /\ trades' = SortTrades(trades)
    /\ pc' = "done"
    /\ UNCHANGED <<data_vars, strategy_vars, candle_time, pending_entries,
                   actions, open_legs, warnings, error, eod_i, placed, lookups,
                   tracker_vars>>

\* the strategy's on_day_start and tracker.new_day of a further call
\* (lines 116-124)
DayStartOf(strat, vs, rg) ==
    [legs |-> IF strat = "VolatilityStraddles" THEN vs.legs ELSE rg.legs,
     leg_counter |-> IF strat = "VolatilityStraddles" THEN vs.leg_counter
                     ELSE rg.leg_counter,
     initial_index_open |-> vs.initial_index_open,
     volatility |-> IF strat = "VolatilityStraddles" THEN vs.volatility ELSE 0,
     straddles |-> rg.straddles,
     straddle_counter |-> rg.straddle_counter,
     processed_levels |-> rg.processed_levels,
     raises |-> strat = "VolatilityStraddles" /\ on_day_start_raises(vs)]

\* A further call of run_event_backtest_v2 for the same day with the same
\* strategy object and the same tracker (lines 103-126), after the caller
\* has or has not called clear_cache() and has written the tracker's rows
\* out with save().
RunAgain ==
    /\ strategy \in {"VolatilityStraddles", "DynamicATM100Range"}
    /\ pc \in {"done", "raised"}
    /\ run < MaxRuns
    /\ run' = run + 1
    /\ \E cleared \in BOOLEAN :
          /\ expiry_cache' = IF cleared THEN NoCache ELSE expiry_cache
          /\ first_run' = [(IF run = 1 THEN RunOutcome ELSE first_run) EXCEPT
                              !.g_warm = expiry_cache' /= NoCache]
    /\ LET self == DayStartOf(strategy,
                        on_day_start([legs |-> self_legs,
                                      leg_counter |-> leg_counter,
                                      initial_index_open |-> initial_index_open,
                                      volatility |-> volatility,
                                      volatility_map |-> volatility_map]),
                        range_on_day_start(RangeSelf))
       IN  /\ self_legs' = self.legs
           /\ leg_counter' = self.leg_counter
           /\ initial_index_open' = self.initial_index_open
           /\ volatility' = self.volatility
           /\ straddles' = self.straddles
           /\ straddle_counter' = self.straddle_counter
           /\ processed_levels' = self.processed_levels
           /\ strat_legs' = {self.legs[i].leg_id : i \in 1..Len(self.legs)}
           /\ IF self.raises
              THEN /\ pc' = "raised" /\ error' = "NoVolatility"
                   /\ UNCHANGED realized_pnl
              ELSE /\ pc' = "loop" /\ error' = ""
                   /\ realized_pnl' = new_day(realized_pnl)
    /\ trades' = <<>>
    /\ warnings' = <<>>
    /\ open_legs' = <<>>
    /\ pending_entries' = <<>>
    /\ actions' = <<>>
    /\ candle_time' = 0
    /\ eod_i' = 1
    /\ placed' = <<>>
    /\ lookups' = <<>>
    /\ on_minute_calls' = <<>>
    /\ pnl_rows' = <<>>
    /\ issue_rows' = <<>>
    /\ UNCHANGED <<engine, strategy, index_df, index_price, opt_data,
                   volatility_map, weekday, exec_vars, driver_vars>>

Next ==
    \/ ExecEntry
    \/ ExecMonitor
    \/ ExecTimeExit
    \/ ExecReturn
    \/ LoopNext
    \/ ProcessPending
    \/ OnMinute
    \/ HandleEnterNow
    \/ HandleEnterQueue
    \/ HandleExit
    \/ EndMinute
    \/ EodExit
    \/ Finish
    \/ RunAgain
    \/ DriverBatch
    \/ DayStart
    \/ LegStep
    \/ DayReturn
    \/ ClearCache

Spec == Init /\ [][Next]_vars

\* =====================================================================
\* Properties
\* =====================================================================
SeqCount(seq, P(_)) == Cardinality({i \in 1..Len(seq) : P(seq[i])})

Range(seq) == {seq[i] : i \in 1..Len(seq)}

\* The entry facts of every leg filled so far, open or closed.
FilledLegs ==
    {[g_emit |-> l.g_emit, g_fill |-> l.g_fill, type |-> l.type,
      entry_time |-> l.entry_time, entry_price |-> l.entry_price] :
        l \in Range(open_legs)}
    \cup
    {[g_emit |-> t.g_emit, g_fill |-> t.g_fill, type |-> t.TYPE,
      entry_time |-> t.ENTRY_TIME, entry_price |-> t.ENTRY_PRICE] :
        t \in Range(trades)}

NextIndexMinute(T) == SetMin({t \in index_df : t > T})

IsEodSkip(w) == w.EXIT_REASON = "EOD_SKIPPED"

\* C1: when the day completes, every leg that was placed in the open-leg
\* book has exactly one trade record or exactly one EOD_SKIPPED warning,
\* never both and never two trade records, and there is no other record.
C1_BookAccounted ==
    pc = "done" =>
        /\ \A i \in 1..Len(placed) :
              LET TradeOfLeg(t) == t.g_leg_id = placed[i]
                  SkipOfLeg(w) == IsEodSkip(w) /\ w.g_leg_id = placed[i]
              IN  SeqCount(trades, TradeOfLeg) + SeqCount(warnings, SkipOfLeg) = 1
        /\ Len(trades) + SeqCount(warnings, IsEodSkip) = Len(placed)

\* C1 witness: a completed day with one leg closed by a strategy EXIT and
\* another closed by the forced end-of-day close.
C1_Witness ==
    /\ pc = "done"
    /\ \E t \in Range(trades) : t.EXIT_REASON = "EOD"
    /\ \E t \in Range(trades) : t.EXIT_REASON = "UPPER_BREACH"

\* C2: an ENTER is filled in the minute it is emitted iff that minute is
\* ENTRY_TIME; any other ENTER emitted at T is filled while the next index
\* minute is processed, at the Open of an option candle that is never at or
\* before T; and the pending queue is empty when the strategy is consulted.
C2_EntryTiming ==
    /\ \A l \in FilledLegs :
          /\ (l.g_fill = l.g_emit) <=> (l.g_emit = ENTRY_TIME)
          /\ l.entry_price = OptOpen(l.type, l.entry_time)
          /\ l.g_emit /= ENTRY_TIME =>
                /\ l.g_fill = NextIndexMinute(l.g_emit)
                /\ l.entry_time > l.g_emit
    /\ pc = "strategy" => pending_entries = <<>>

\* C3: every entry filled and every exit priced while the engine processes
\* minute T (the forced close counts as minute EXIT_TIME - 1) uses an option
\* candle stamped at or before T.
C3_NoLookAhead ==
    /\ \A l \in Range(open_legs) : l.entry_time <= l.g_fill
    /\ \A t \in Range(trades) :
          /\ t.ENTRY_TIME <= t.g_fill
          /\ t.EXIT_TIME <= t.g_exit

\* C4: an EXIT intent naming a leg that is not in the open-leg book does
\* not end the day: the engine goes on and returns the day's trades.
C4_UnknownExitConfined == ~(pc = "raised" /\ error = "KeyError")

\* C5: a queued pending entry or an open leg whose strike/type has no option
\* data for the day is left out and logged, and does not end the day.
C5_UnpricedLegConfined ==
    ~(/\ pc = "raised"
      /\ error \in {"NoOptionData:PENDING_ENTRY", "NoOptionData:EXIT",
                    "NoOptionData:EOD_EXIT"})

\* C7: every leg in the book when the minute loop ends is closed with the
\* end-of-day reason at the Close of the candle the safe lookup returns for
\* EXIT_TIME - 1, and no forced close uses a candle later than EXIT_TIME - 1.
C7_ForcedClose ==
    /\ \A t \in Range(trades) :
          t.EXIT_REASON = "EOD" =>
              /\ t.EXIT_TIME <= eod_time
              /\ t.EXIT_PRICE = OptClose(t.TYPE, t.EXIT_TIME)
    /\ pc = "done" =>
          \A l \in Range(open_legs) :
              \E t \in Range(trades) :
                  t.g_leg_id = l.leg_id /\ t.EXIT_REASON = "EOD"

\* C8: a lookup whose series has the requested minute returns that candle
\* without a warning; any other lookup returns the latest candle before the
\* requested minute with exactly one warning naming both times, and the
\* entry or exit goes ahead.
C8_SafeLookup ==
    /\ \A i \in 1..Len(lookups) :
          LET l == lookups[i]
              times == opt_data[l.type]
          IN  IF l.requested \in times
              THEN l.found /\ l.actual = l.requested /\ ~l.warned
              ELSE /\ l.found /\ l.warned
                   /\ l.actual < l.requested
                   /\ l.actual \in times
                   /\ \A t \in times : t < l.requested => t <= l.actual
    /\ LET Warned(l) == l.warned
       IN  Len(warnings) = SeqCount(lookups, Warned)
    /\ \A w \in Range(warnings) :
          \E l \in Range(lookups) :
              /\ l.warned /\ l.action = w.ACTION /\ l.type = w.TYPE
              /\ l.requested = w.REQUESTED_TIME /\ l.actual = w.ACTUAL_TIME

\* C6: every trade record of the event engine is short (QTY = -1) with
\* PNL = ENTRY_PRICE - EXIT_PRICE of that record, and every result of
\* execute_option_leg has pnl = entry_price - exit_price when short and
\* exit_price - entry_price when long.
C6_PnlIdentity ==
    /\ \A t \in Range(trades) :
          t.QTY = -1 /\ t.PNL = t.ENTRY_PRICE - t.EXIT_PRICE
    /\ xpc = "returned" =>
          /\ qty = -1 => result.pnl = result.entry_price - result.exit_price
          /\ qty = 1 => result.pnl = result.exit_price - result.entry_price

\* C6 witness: a completed day with a strategy exit and an end-of-day exit,
\* both with a non-zero PnL.
C6_Witness ==
    /\ pc = "done"
    /\ \E t \in Range(trades) : t.EXIT_REASON = "UPPER_BREACH" /\ t.PNL /= 0
    /\ \E t \in Range(trades) : t.EXIT_REASON = "EOD" /\ t.PNL /= 0

\* The entry candle and the breaching candles of a call, read off the inputs.
EntryIdx == SetMin(Eligible(df, intended_entry_time))

Breaches(i) ==
    /\ i >= EntryIdx
    /\ df[i].time <= exit_time
    /\ IF qty < 0
       THEN df[i].High * 100 >= df[EntryIdx].Open * (100 + sl_pct)
       ELSE df[i].Low * 100 <= df[EntryIdx].Open * (100 - sl_pct)

BreachSet == {i \in 1..Len(df) : Breaches(i)}

C10_EntryCandleExempt ==
    (xpc = "returned" /\ result.exit_reason = "SL_HIT") =>
        result.exit_time > result.entry_time

\* Positions of df at or before the configured exit time, and the first
\* position at or after the intended entry time, read off the inputs.
AtOrBeforeExit == {i \in 1..Len(df) : df[i].time <= exit_time}

FirstAtOrAfter ==
    {i \in 1..Len(df) :
        /\ df[i].time >= intended_entry_time
        /\ \A j \in 1..(i - 1) : df[j].time < intended_entry_time}

\* C11: a result of execute_option_leg has reason TIME_EXIT iff no candle
\* from the entry candle through the exit time breaches the stop level, and
\* then exits at the Close of the last candle at or before the exit time;
\* with no candle at or before the exit time (or an entry candle later than
\* the exit time) the call raises; every result has
\* entry_time <= exit timestamp <= configured exit time.
C11_TimeExit ==
    /\ xpc = "returned" =>
          /\ (result.exit_reason = "TIME_EXIT") <=> (BreachSet = {})
          /\ result.exit_reason = "TIME_EXIT" =>
                /\ AtOrBeforeExit /= {}
                /\ LET last == df[SetMax(AtOrBeforeExit)]
                   IN  /\ result.exit_price = last.Close
                       /\ result.exit_time = last.time
          /\ result.entry_time <= result.exit_time
          /\ result.exit_time <= exit_time
    /\ (xpc \in {"returned", "raised"} /\ AtOrBeforeExit = {}) => xpc = "raised"
    /\ (/\ xpc \in {"returned", "raised"}
        /\ FirstAtOrAfter /= {}
        /\ \A i \in FirstAtOrAfter : df[i].time > exit_time) =>
            xpc = "raised" /\ error = "NoExitCandle"

\* C11 witness: a leg that is never stopped out leaves at the Close of the
\* last candle at or before the exit time, later than its entry, although
\* the series goes on after the exit time.
C11_Witness ==
    /\ xpc = "returned" /\ result.exit_reason = "TIME_EXIT"
    /\ result.exit_time > result.entry_time
    /\ \E i \in 1..Len(df) : df[i].time > exit_time

\* C12: the entry of execute_option_leg is the first candle at or after the
\* intended entry time, at its Open; entry_delayed holds exactly when that
\* candle's minute is not the intended one, entry_delay_minutes is then the
\* positive distance in minutes and 0 otherwise; with no candle at or after
\* the intended time the call raises and returns nothing.
C12_EntryCandle ==
    /\ xpc \in {"monitor", "time_exit", "pnl", "returned"} =>
          \E i \in FirstAtOrAfter :
              /\ result.entry_time = df[i].time
              /\ result.entry_price = df[i].Open
              /\ result.entry_delayed <=> (df[i].time /= intended_entry_time)
              /\ result.entry_delay_minutes = df[i].time - intended_entry_time
              /\ result.entry_delayed => result.entry_delay_minutes > 0
    /\ (xpc \in {"returned", "raised"} /\ FirstAtOrAfter = {}) =>
          /\ xpc = "raised"
          /\ error \in {"EmptyDataframe", "NoEntryCandle"}

\* C12 witness: the intended minute has no candle although an earlier one
\* exists, and the leg is entered two or more minutes late.
C12_Witness ==
    /\ xpc = "returned" /\ result.entry_delayed
    /\ result.entry_delay_minutes >= 2
    /\ \E i \in 1..Len(df) : df[i].time < intended_entry_time

\* Ledger order: (ENTRY_TIME, TYPE) ascending, "CE" before "PE".
KeyBefore(a, b) ==
    \/ a.ENTRY_TIME < b.ENTRY_TIME
    \/ /\ a.ENTRY_TIME = b.ENTRY_TIME
       /\ (a.TYPE = b.TYPE \/ (a.TYPE = "CE" /\ b.TYPE = "PE"))

IsSortedLedger(ts) ==
    \A i, j \in 1..Len(ts) : i < j => KeyBefore(ts[i], ts[j])

SameRecords(a, b) ==
    /\ Len(a) = Len(b)
    /\ \A x \in Range(a) \cup Range(b) :
          LET IsX(y) == y = x
          IN  SeqCount(a, IsX) = SeqCount(b, IsX)

\* C13: the step that returns the day's trades leaves them in non-decreasing
\* order of (ENTRY_TIME, TYPE) and keeps exactly the records appended during
\* the day, each as often as it was appended.
C13_SortedLedger ==
    [][(pc = "eod" /\ pc' = "done") =>
          (IsSortedLedger(trades') /\ SameRecords(trades, trades'))]_vars

\* C13 witness: a returned ledger in which a leg closed by the end-of-day
\* loop stands before a leg the strategy closed earlier in the day.
C13_Witness ==
    /\ pc = "done"
    /\ \E i, j \in 1..Len(trades) :
          /\ i < j
          /\ trades[i].EXIT_REASON = "EOD"
          /\ trades[j].EXIT_REASON /= "EOD"
          /\ trades[i].g_exit > trades[j].g_exit

\* The ENTER intents of the run so far, as (call, position) pairs.
EnterSlots ==
    UNION {{<<k, i>> : i \in {j \in 1..Len(on_minute_calls[k].acts) :
                                on_minute_calls[k].acts[j].action = "ENTER"}} :
              k \in 1..Len(on_minute_calls)}

EnterAt(c) == on_minute_calls[c[1]].acts[c[2]]

\* C14: within a day every ENTER intent carries a leg_id no earlier ENTER
\* intent of the day carried, so no leg is placed on a leg_id already used
\* (no book entry is overwritten) and the book holds at most one leg per
\* leg_id.
C14_LegIdsFresh ==
    /\ \A c, d \in EnterSlots :
          c /= d => EnterAt(c).leg_id /= EnterAt(d).leg_id
    /\ \A i, j \in 1..Len(placed) : i /= j => placed[i] /= placed[j]
    /\ \A i, j \in 1..Len(open_legs) :
          i /= j => open_legs[i].leg_id /= open_legs[j].leg_id

\* C14 witness: a completed day on which a stopped-out leg was replaced, so
\* that three or more legs were opened one after another.
C14_Witness ==
    /\ pc = "done"
    /\ Len(placed) >= 3
    /\ \E t \in Range(trades) : t.EXIT_REASON = "CE_SL_HIT"

\* The calls of VolatilityStraddles.on_minute made while it held legs with
\* the index price above the stop level of a held CE leg and not below the
\* stop level of any held PE leg.
CeBreachCalls ==
    {k \in 1..Len(on_minute_calls) :
        LET call == on_minute_calls[k]
        IN  /\ strategy = "VolatilityStraddles"
            /\ \E i \in 1..Len(call.held) :
                   call.held[i].type = "CE" /\ call.price > call.held[i].sl_index
            /\ \A i \in 1..Len(call.held) :
                   call.held[i].type = "PE" => call.price >= call.held[i].sl_index}

BreachedCe(k) ==
    LET call == on_minute_calls[k]
    IN  call.held[CHOOSE i \in 1..Len(call.held) :
                     call.held[i].type = "CE" /\ call.price > call.held[i].sl_index]

\* Entry facts of the legs opened so far, by leg_id.
OpenedLegs ==
    {[leg_id |-> l.leg_id, type |-> l.type, entry_time |-> l.entry_time,
      entry_price |-> l.entry_price] : l \in Range(open_legs)}
    \cup
    {[leg_id |-> t.g_leg_id, type |-> t.TYPE, entry_time |-> t.ENTRY_TIME,
      entry_price |-> t.ENTRY_PRICE] : t \in Range(trades)}

\* C15: when at minute T the index price is above the stop level of the
\* held CE leg and the PE leg is not breached, on_minute returns exactly one
\* EXIT for that CE leg and one ENTER for a fresh CE leg; the engine records
\* one trade for the old CE leg, closed while minute T is processed with
\* reason CE_SL_HIT, and the new CE leg is opened at the Open of minute T + 1.
C15_BreachReentry ==
    \A k \in CeBreachCalls :
        LET call == on_minute_calls[k]
            T == call.time
            old == BreachedCe(k)
            fresh == call.acts[2].leg_id
            TradeOfOld(t) == t.g_leg_id = old.leg_id
            processed == \/ pc \in {"eod", "done"}
                         \/ candle_time > T /\ pc \in {"strategy", "intents", "loop"}
        IN  /\ Len(call.acts) = 2
            /\ call.acts[1].action = "EXIT" /\ call.acts[1].leg_id = old.leg_id
            /\ call.acts[2].action = "ENTER" /\ call.acts[2].type = "CE"
            /\ \A j \in 1..Len(call.held) : call.held[j].leg_id /= fresh
            /\ processed =>
                  /\ SeqCount(trades, TradeOfOld) = 1
                  /\ \A t \in Range(trades) :
                        TradeOfOld(t) =>
                            t.g_exit = T /\ t.EXIT_REASON = "CE_SL_HIT"
                  /\ \E l \in OpenedLegs :
                        /\ l.leg_id = fresh /\ l.type = "CE"
                        /\ l.entry_time = T + 1
                        /\ l.entry_price = OptOpen("CE", T + 1)

\* C16: a further run over the same day, with the same strategy object and
\* with the option cache warm or cleared, ends as the first run did: the
\* same trade records with the same values in the same order, or the same
\* exception.
C16_Idempotent ==
    (run > 1 /\ pc \in {"done", "raised"}) =>
        /\ pc = first_run.pc
        /\ error = first_run.error
        /\ pc = "done" =>
              trades = first_run.trades /\ warnings = first_run.warnings

\* C16 witness: a second run on a warm cache that returns three or more
\* trades, among them a stopped-out leg.
C16_Witness ==
    /\ run > 1 /\ pc = "done" /\ first_run.g_warm
    /\ Len(trades) >= 3
    /\ \E t \in Range(trades) : t.EXIT_REASON = "PE_SL_HIT"

\* C20: on_minute is called only for index candles before EXIT_TIME, in
\* strictly increasing time order (so at most once per candle); once the
\* loop has met a candle at or after EXIT_TIME there is no further on_minute
\* call, no entry and no strategy exit: only end-of-day closes follow.
C20_LoopBound ==
    [][/\ \A i \in 1..Len(on_minute_calls') :
             /\ on_minute_calls'[i].time \in index_df
             /\ on_minute_calls'[i].time < EXIT_TIME
             /\ \A j \in 1..(i - 1) :
                   on_minute_calls'[j].time < on_minute_calls'[i].time
       /\ (pc \in {"eod", "done"} /\ run' = run) =>
             /\ pc' \in {"eod", "done", "raised"}
             /\ on_minute_calls' = on_minute_calls
             /\ placed' = placed
             /\ open_legs' = open_legs
             /\ (pc = "eod" /\ pc' = "eod") =>
                   \/ trades' = trades
                   \/ /\ Len(trades') = Len(trades) + 1
                      /\ SubSeq(trades', 1, Len(trades)) = trades
                      /\ trades'[Len(trades')].EXIT_REASON = "EOD"]_vars

\* C20 witness: a completed day on which on_minute was called for every
\* index candle before EXIT_TIME and the index goes on past EXIT_TIME.
C20_Witness ==
    /\ pc = "done"
    /\ Len(on_minute_calls) = Cardinality({t \in index_df : t < EXIT_TIME})
    /\ Len(on_minute_calls) >= 3
    /\ \E t \in index_df : t >= EXIT_TIME

DatesOf(days) == [i \in 1..Len(days) |-> days[i].date]

\* C17: run_multi_day_backtest starts every date of its list exactly once,
\* in the order of the list; a date with a day-level failure has exactly one
\* error record, with LegID "ALL", and no trade record, and the dates after
\* it are processed all the same.
C17_DayFailureConfined ==
    /\ dpc \in {"day", "leg", "clear"} =>
          /\ Len(md_days) <= Len(batch_dates)
          /\ DatesOf(md_days) = SubSeq(batch_dates, 1, Len(md_days))
    /\ dpc = "clear" =>
          /\ DatesOf(md_days) = batch_dates
          /\ \A i \in 1..Len(md_days) :
                md_days[i].failure /= "" =>
                    LET OnDate(r) == r.Date = md_days[i].date
                        AllOnDate(r) == OnDate(r) /\ r.LegID = "ALL"
                    IN  /\ SeqCount(md_errors, OnDate) = 1
                        /\ SeqCount(md_errors, AllOnDate) = 1
                        /\ SeqCount(md_trades, OnDate) = 0

\* C17 witness: a batch whose first date fails at day level and whose next
\* date still produces a trade.
C17_Witness ==
    /\ dpc = "clear"
    /\ Len(md_days) >= 2
    /\ md_days[1].failure = "NoSpotCandle"
    /\ \E t \in Range(md_trades) : t.Date = md_days[2].date

RECURSIVE BatchesOf(_)
BatchesOf(log) ==
    IF log = <<>> THEN <<>>
    ELSE BatchesOf(SubSeq(log, 1, Len(log) - 1)) \o log[Len(log)].batch

\* C19: the option cache is emptied only by the clear_cache() call main
\* makes after a batch: at that moment every date of the batch has been
\* processed to its end and no date of the next batch has started; the
\* batches have at most BATCH_SIZE dates, follow the date list in order, and
\* each is followed by exactly one clear.
C19_ClearAtBatchEnd ==
    [][/\ (clear_log' /= clear_log \/ ~(cache_keys \subseteq cache_keys')) =>
             /\ dpc = "clear" /\ dpc' = "batch"
             /\ clear_log' = Append(clear_log, clear_log'[Len(clear_log')])
             /\ cache_keys' = {}
             /\ DatesOf(md_days) = batch_dates
             /\ Len(batch_dates) >= 1 /\ Len(batch_dates) <= BATCH_SIZE
             /\ BatchesOf(clear_log') =
                    SubSeq(trading_dates(n_dates), 1, Len(BatchesOf(clear_log')))
       /\ dpc' = "batch" => batch_start' = Len(clear_log') * BATCH_SIZE
       /\ dpc' = "finished" =>
             /\ BatchesOf(clear_log') = trading_dates(n_dates)
             /\ Len(clear_log') * BATCH_SIZE >= n_dates
             /\ (Len(clear_log') - 1) * BATCH_SIZE < n_dates]_vars

\* C19 witness: a finished run of two batches, the first of BATCH_SIZE dates,
\* whose cache held entries when it was cleared.
C19_Witness ==
    /\ dpc = "finished"
    /\ Len(clear_log) = 2
    /\ Len(clear_log[1].batch) = BATCH_SIZE
    /\ clear_log[1].cached /= {}

RECURSIVE SumPnl(_)
SumPnl(ts) ==
    IF ts = <<>> THEN 0
    ELSE SumPnl(SubSeq(ts, 1, Len(ts) - 1)) + ts[Len(ts)].PNL

\* Mark-to-market of a book at minute T, from the price table.
RECURSIVE MarkToMarket(_, _)
MarkToMarket(book, T) ==
    IF book = <<>> THEN 0
    ELSE MarkToMarket(Tail(book), T)
         + (Head(book).entry_price - OptClose(Head(book).type, T))

\* A minute of the day loop has just been completed, snapshot included.
MinuteDone == pc = "loop" /\ candle_time > 0

\* Positions of the book whose option has no candle at the current minute.
MissingNow ==
    {i \in 1..Len(open_legs) : candle_time \notin opt_data[open_legs[i].type]}

\* C21: when record is called for minute T and the close at T is missing for
\* at least one open leg, no PnL row is appended for T and one issue row per
\* missing leg is; when every open leg has a close at T, exactly one PnL row
\* and no issue row is appended.
C21_RecordAllOrNothing ==
    (MinuteDone /\ open_legs /= <<>>) =>
        LET AtT(r) == r.Time = candle_time
        IN  IF MissingNow /= {}
            THEN /\ SeqCount(pnl_rows, AtT) = 0
                 /\ SeqCount(issue_rows, AtT) = Cardinality(MissingNow)
                 /\ \A i \in MissingNow :
                       LET OfLeg(r) == AtT(r) /\ r.LegID = open_legs[i].leg_id
                       IN  SeqCount(issue_rows, OfLeg) = 1
            ELSE /\ SeqCount(pnl_rows, AtT) = 1
                 /\ SeqCount(issue_rows, AtT) = 0

\* C21 witness: a minute with two open legs of which one has its candle and
\* the other has not, after a minute that did get its PnL row.
C21_Witness ==
    /\ MinuteDone /\ Len(open_legs) = 2
    /\ Cardinality(MissingNow) = 1
    /\ Len(issue_rows) = 1 /\ Len(pnl_rows) >= 1

\* C22: the PnL row appended for minute T carries the PnL realized so far in
\* the day plus, over the legs in the open-leg book at the end of minute T,
\* the sum of entry_price minus the leg's close at T; queued pending entries
\* and closed legs add nothing to the mark-to-market part.
C22_RowValue ==
    (/\ MinuteDone /\ pnl_rows /= <<>>
     /\ pnl_rows[Len(pnl_rows)].Time = candle_time) =>
        pnl_rows[Len(pnl_rows)].PnL =
            SumPnl(trades) + MarkToMarket(open_legs, candle_time)

\* C22 witness: a row written at a minute on which one leg had been closed at
\* a loss or gain, one leg was open and one entry was waiting in the queue.
C22_Witness ==
    /\ MinuteDone /\ pnl_rows /= <<>>
    /\ pnl_rows[Len(pnl_rows)].Time = candle_time
    /\ Len(open_legs) = 1 /\ pending_entries /= <<>>
    /\ trades /= <<>> /\ SumPnl(trades) /= 0
    /\ MarkToMarket(open_legs, candle_time) /= 0

\* C30: at every point of a day the tracker's realized-PnL accumulator equals
\* the sum of the PNL fields of the trade records appended so far for the
\* day: 0 after new_day, and raised by each trade's PnL exactly once.
C30_RealizedIsLedgerSum ==
    engine = "event" => realized_pnl = SumPnl(trades)

\* C30 witness: the second day run with the same tracker ends with a leg
\* closed by the strategy and a leg closed at the end of the day, after a
\* first run that had left the accumulator non-zero.
C30_Witness ==
    /\ run > 1 /\ pc = "done"
    /\ SumPnl(first_run.trades) /= 0
    /\ realized_pnl /= 0
    /\ \E t \in Range(trades) : t.EXIT_REASON = "CE_SL_HIT"
    /\ \E t \in Range(trades) : t.EXIT_REASON = "EOD"

\* The rows written for the minute just completed.
RowsNow == LET AtT(r) == r.Time = candle_time IN SeqCount(pnl_rows, AtT)

IssuesNow == LET AtT(r) == r.Time = candle_time IN SeqCount(issue_rows, AtT)

RowKey(r) == <<r.Date, r.Time, r.Strategy>>

UniqueRowKeys ==
    \A i, j \in 1..Len(pnl_rows) :
        i /= j => RowKey(pnl_rows[i]) /= RowKey(pnl_rows[j])

\* C23 (as stated): with a tracker attached every minute processed by the
\* day loop yields exactly one PnL row, or issue rows instead when a leg
\* price is unresolvable, and no two PnL rows of a run share the same
\* (date, time, strategy) key.
C23_RowPerMinute ==
    /\ MinuteDone =>
          \/ RowsNow = 1 /\ IssuesNow = 0
          \/ RowsNow = 0 /\ IssuesNow >= 1
    /\ UniqueRowKeys

\* C23 (amended): every minute the day loop completes with at least one leg
\* in the open-leg book yields exactly one PnL row, or issue rows instead; a
\* minute that ends with an empty book yields neither; and no two PnL rows
\* of a run share the same (date, time, strategy) key.
C23_RowPerOpenMinute ==
    /\ MinuteDone =>
          IF open_legs /= <<>>
          THEN \/ RowsNow = 1 /\ IssuesNow = 0
               \/ RowsNow = 0 /\ IssuesNow >= 1
          ELSE RowsNow = 0 /\ IssuesNow = 0
    /\ UniqueRowKeys

\* C23 witness: a minute that ends with an empty book after the strategy
\* closed its legs, on a day that has PnL rows for two earlier minutes.
C23_Witness ==
    /\ MinuteDone /\ open_legs = <<>>
    /\ trades /= <<>> /\ Len(pnl_rows) >= 2
    /\ RowsNow = 0

\* Every option a leg of the day was opened on has its candle at exactly
\* EXIT_TIME - 1 minute.
EodCandlesPresent ==
    /\ \A l \in Range(open_legs) : eod_time \in opt_data[l.type]
    /\ \A t \in Range(trades) : eod_time \in opt_data[t.TYPE]

\* C29: for a day that completes with every needed option candle present at
\* exactly EXIT_TIME - 1 minute, the PnL of the last minute-PnL row recorded
\* for the day equals the sum of PNL over all trade records of the day.
C29_LastRowIsLedgerSum ==
    (pc = "done" /\ pnl_rows /= <<>> /\ EodCandlesPresent) =>
        pnl_rows[Len(pnl_rows)].PnL = SumPnl(trades)

\* C27: every trade record of run_event_backtest_v2 has an exit time that is
\* not earlier than its entry time, also for option series with missing
\* minutes, where the safe lookup chooses the entry or exit candle.
C27_ExitNotBeforeEntry ==
    \A t \in Range(trades) : t.EXIT_TIME >= t.ENTRY_TIME

\* C28: when run_event_backtest_v2 returns, the pending-entry queue is empty
\* and every ENTER intent emitted during the day has been opened as a leg in
\* the open-leg book or recorded as a skipped PENDING_ENTRY warning, also
\* when it was emitted on the last minute processed before EXIT_TIME.
C28_EnterResolved ==
    pc = "done" =>
        /\ pending_entries = <<>>
        /\ \A c \in EnterSlots :
              \/ EnterAt(c).leg_id \in Range(placed)
              \/ \E w \in Range(warnings) :
                    /\ w.ACTION = "PENDING_ENTRY"
                    /\ w.g_leg_id = EnterAt(c).leg_id
                    /\ w.WARNING = "no fallback"

\* The legs of the current day handled so far that name an option type.
OptionLegsDone ==
    {k \in 1..(leg_i - 1) : k <= Len(cur_day.strikes)
                            /\ cur_day.strikes[k] \in {"CE", "PE"}}

\* C24: load_option_data raises when no partition yields rows for the trade
\* date and when the requested strike/type has no rows; a failed expiry load
\* leaves the cache as it was, so a date has a key in the expiry cache only
\* if a load for it found data, and a later call for the same key attempts
\* the load again (and fails again) instead of answering from the cache.
C24_FailedLoadNotCached ==
    /\ \A d \in cache_keys :
          \E i \in 1..Len(md_days) :
              md_days[i].date = d /\ md_days[i].expiry_exists
    /\ (dpc = "leg" /\ cur_day.failure = "" /\ ~cur_day.expiry_exists) =>
          /\ cur_day.date \notin cache_keys
          /\ sd_trades = <<>>
          /\ \A k \in OptionLegsDone :
                \E e \in Range(sd_errors) :
                    e.LegID = cur_day.strikes[k] /\ e.Error = "NoExpiryData"
    /\ dpc = "leg" =>
          \A e \in Range(sd_errors) :
              e.Error = "NoOptionData" => e.Date \in cache_keys
    /\ (engine = "event" /\ pc = "raised"
        /\ error \in {"NoOptionData:ENTRY", "NoOptionData:PENDING_ENTRY",
                      "NoOptionData:EXIT", "NoOptionData:EOD_EXIT"}) =>
          \E type \in OptionTypes : opt_data[type] = {}
    /\ \A l \in Range(open_legs) : opt_data[l.type] /= {}

\* C24 witness: both legs of a day without expiry data failed on the load,
\* one after the other, while the cache holds the key of an earlier day of
\* the batch and not the key of this day.
C24_Witness ==
    /\ dpc = "leg" /\ leg_i > 2 /\ ~cur_day.expiry_exists
    /\ cur_day.strikes = <<"CE", "PE">>
    /\ Len(sd_errors) = 2
    /\ sd_errors[1].Error = "NoExpiryData" /\ sd_errors[2].Error = "NoExpiryData"
    /\ cache_keys /= {} /\ cur_day.date \notin cache_keys

EarlierDates == {d \in DOMAIN volatility_map : d < trade_date}

\* C25: on_day_start of VolatilityStraddles resolves the day's volatility to
\* the table's value for the trade date when the table has that date, else
\* to the value of the latest table date strictly before the trade date;
\* when there is no such date on_day_start fails with an error and the
\* strategy emits no intent for that day.
C25_VolatilityLookup ==
    (engine = "event" /\ strategy = "VolatilityStraddles") =>
        IF trade_date \in DOMAIN volatility_map
        THEN /\ volatility = CsvVolatility(trade_date)
             /\ error /= "NoVolatility"
        ELSE IF EarlierDates /= {}
        THEN /\ volatility = CsvVolatility(SetMax(EarlierDates))
             /\ \A d \in EarlierDates : d <= SetMax(EarlierDates)
             /\ error /= "NoVolatility"
        ELSE /\ pc = "raised" /\ error = "NoVolatility"
             /\ on_minute_calls = <<>> /\ actions = <<>>
             /\ pending_entries = <<>> /\ open_legs = <<>> /\ trades = <<>>

\* C25 witness: a second day start on a table that has both earlier dates
\* and a later date but not the trade date: the later of the two earlier
\* dates is used and the day trades with it.
C25_Witness ==
    /\ strategy = "VolatilityStraddles" /\ run > 1 /\ pc = "done"
    /\ DOMAIN volatility_map = Dates \ {trade_date}
    /\ volatility = CsvVolatility(trade_date - 1)
    /\ trades /= <<>>

\* C26: for DynamicATM100Range run by run_event_backtest_v2, every EXIT
\* intent returned by on_minute names a leg that is in the open-leg book
\* when the engine processes the intent, for every index price path: no
\* on_minute call returns an EXIT for a leg whose ENTER it returned earlier
\* in the same call.
C26_ExitNamesOpenLeg ==
    strategy = "DynamicATM100Range" =>
        /\ (pc = "intents" /\ actions /= <<>> /\ Head(actions).action = "EXIT")
              => InBook(open_legs, Head(actions).leg_id)
        /\ \A k \in 1..Len(on_minute_calls) :
              LET acts == on_minute_calls[k].acts
              IN  \A i, j \in 1..Len(acts) :
                      (i < j /\ acts[i].action = "ENTER"
                             /\ acts[j].action = "EXIT")
                          => acts[i].leg_id /= acts[j].leg_id

\* The on_minute calls DynamicATM100Range has made in this run.
RangeCalls ==
    IF strategy = "DynamicATM100Range" THEN 1..Len(on_minute_calls) ELSE {}

InBreach(leg, price) ==
    \/ leg.type = "CE" /\ price > leg.upper
    \/ leg.type = "PE" /\ price < leg.lower

HeldInBreach(k) ==
    \E i \in 1..Len(on_minute_calls[k].after) :
        InBreach(on_minute_calls[k].after[i], on_minute_calls[k].price)

C34_OneStraddlePerLevel ==
    strategy = "DynamicATM100Range" =>
        /\ \A i, j \in 1..Len(straddles) :
               straddles[i].atm = straddles[j].atm => i = j
        /\ \A i \in 1..Len(straddles) : straddles[i].atm \in processed_levels
        /\ \A c, d \in EnterSlots :
               (EnterAt(c).type = EnterAt(d).type
                    /\ EnterAt(c).strike = EnterAt(d).strike) => c = d

\* a call exits a leg on a breach of a level that already has its straddle,
\* and adds nothing
C34_Witness ==
    \E k \in RangeCalls :
        /\ Len(straddles) >= 2
        /\ on_minute_calls[k].acts /= <<>>
        /\ \A i \in 1..Len(on_minute_calls[k].acts) :
               on_minute_calls[k].acts[i].action = "EXIT"

\* The state in which the minute loop of a day is about to take its first
\* candle: on_day_start and new_day have returned.
DayStarted == engine = "event" /\ pc = "loop" /\ candle_time = 0

\* C32: after day start, however the previous run over the strategy object
\* and the tracker ended, the strategy holds no legs and no straddle levels,
\* its leg counter is 1 and its processed-levels set is empty, the engine's
\* open-leg book and pending-entry queue are empty and the tracker's realized
\* accumulator is 0; and in a later run every leg in the ledger, the book and
\* the queue comes from an ENTER intent of that run's own on_minute calls,
\* with the accumulator equal to that run's ledger sum.
C32_DayStartResets ==
    /\ DayStarted =>
          /\ self_legs = <<>> /\ strat_legs = {} /\ leg_counter = 1
          /\ straddles = <<>> /\ straddle_counter = 1
          /\ processed_levels = {}
          /\ open_legs = <<>> /\ pending_entries = <<>>
          /\ trades = <<>>
          /\ realized_pnl = 0
    /\ (engine = "event" /\ run > 1 /\ pc /= "raised") =>
          /\ LET entered == {EnterAt(c).leg_id : c \in EnterSlots}
             IN  /\ \A i \in 1..Len(trades) : trades[i].g_leg_id \in entered
                 /\ \A i \in 1..Len(open_legs) :
                        open_legs[i].leg_id \in entered
                 /\ \A i \in 1..Len(pending_entries) :
                        pending_entries[i].leg_id \in entered
          /\ realized_pnl = SumPnl(trades)

\* C32 witness: a day starts after a run that was aborted in the middle of
\* the minute loop with legs held by the strategy, a leg in the book, entries
\* in the queue and a non-zero realized accumulator.
C32_Witness ==
    /\ DayStarted /\ run > 1
    /\ first_run.pc = "raised"
    /\ first_run.g_legs /= <<>> /\ first_run.g_book /= <<>>
    /\ first_run.g_pending /= <<>> /\ first_run.g_realized /= 0
    /\ Cardinality(first_run.g_levels) >= 2

\* C31: a day that run_event_backtest_v2 ends with an exception leaves no
\* trace: the tracker holds no PnL row for the date (the call returns no
\* trade list), so a date with PnL rows always has a returned trade list.
C31_AbortLeavesNoTrace ==
    (engine = "event" /\ pc = "raised") => pnl_rows = <<>>

\* The on_minute calls of VolatilityStraddles or VolatilityStrangles.
VolatilityCalls ==
    IF strategy \in VolatilityStrategies THEN 1..Len(on_minute_calls) ELSE {}

LegsOfType(legs, type) == {i \in 1..Len(legs) : legs[i].type = type}

ActsOf(k, action, type) ==
    {i \in 1..Len(on_minute_calls[k].acts) :
        /\ on_minute_calls[k].acts[i].action = action
        /\ type \in {"", on_minute_calls[k].acts[i].type}}

\* C35: after the initial entry every on_minute call of VolatilityStraddles
\* and VolatilityStrangles leaves exactly one CE leg and one PE leg in the
\* strategy's list; a held leg in breach is exited and exactly one new leg of
\* its type is created in the same call; a held leg not in breach stays in
\* the list with its sl_index unchanged and no leg of its type is created.
C35_OnePairHeld ==
    \A k \in VolatilityCalls :
        LET call == on_minute_calls[k]
        IN  /\ (call.time >= ENTRY_TIME) =>
                  \A type \in OptionTypes :
                      Cardinality(LegsOfType(call.after, type)) = 1
            /\ \A i \in 1..Len(call.held) :
                  LET leg == call.held[i]
                  IN  IF breached(leg, call.price)
                      THEN /\ \E a \in ActsOf(k, "EXIT", "") :
                                 call.acts[a].leg_id = leg.leg_id
                           /\ Cardinality(ActsOf(k, "ENTER", leg.type)) = 1
                           /\ leg \notin Range(call.after)
                      ELSE /\ leg \in Range(call.after)
                           /\ ActsOf(k, "ENTER", leg.type) = {}

\* C35 witness: VolatilityStrangles has replaced its breached CE leg and then
\* its breached PE leg, each time keeping the other leg.
C35_Witness ==
    /\ strategy = "VolatilityStrangles"
    /\ \E k, l \in VolatilityCalls :
          /\ k < l
          /\ \E i \in 1..Len(on_minute_calls[k].held) :
                /\ on_minute_calls[k].held[i].type = "CE"
                /\ breached(on_minute_calls[k].held[i], on_minute_calls[k].price)
          /\ \E i \in 1..Len(on_minute_calls[l].held) :
                /\ on_minute_calls[l].held[i].type = "PE"
                /\ breached(on_minute_calls[l].held[i], on_minute_calls[l].price)

\* The on_minute calls of DynamicATMInventory after its initial entry.
InventoryCalls ==
    IF strategy = "DynamicATMInventory"
    THEN {k \in 1..Len(on_minute_calls) : on_minute_calls[k].levels /= <<>>}
    ELSE {}

BandBreach(leg, price) ==
    \/ leg.type = "CE" /\ 10 * price > leg.upper
    \/ leg.type = "PE" /\ 10 * price < leg.lower

\* C36: every DynamicATMInventory.on_minute call after the initial entry
\* exits exactly the held legs in breach at the price (CE above its upper,
\* PE below its lower level), adds a straddle if and only if the price is
\* outside the latest straddle's band, never adds more than one, and returns
\* with no held leg in breach at the price.
C36_InventoryStep ==
    \A k \in InventoryCalls :
        LET call == on_minute_calls[k]
            last == call.levels[Len(call.levels)]
            outside == \/ 10 * call.price > last.upper
                       \/ 10 * call.price < last.lower
            exits == {call.acts[i].leg_id : i \in ActsOf(k, "EXIT", "")}
        IN  /\ exits = {call.held[i].leg_id :
                            i \in {j \in 1..Len(call.held) :
                                      BandBreach(call.held[j], call.price)}}
            /\ Cardinality(ActsOf(k, "ENTER", "CE")) = (IF outside THEN 1 ELSE 0)
            /\ Cardinality(ActsOf(k, "ENTER", "PE")) = (IF outside THEN 1 ELSE 0)
            /\ \A i \in 1..Len(call.after) :
                   ~BandBreach(call.after[i], call.price)

\* C36 witness: a call with two straddle levels exits a leg of the latest
\* level, keeps a leg of the first level and adds a third straddle.
C36_Witness ==
    \E k \in InventoryCalls :
        LET call == on_minute_calls[k]
        IN  /\ Len(call.levels) = 2
            /\ ActsOf(k, "EXIT", "") /= {}
            /\ ActsOf(k, "ENTER", "CE") /= {}
            /\ \E i \in 1..Len(call.after) : call.after[i].straddle_id = 1

\* C37: under the driver the option cache holds only keys of dates of the
\* batch being processed that the batch has started, so never more than
\* BATCH_SIZE keys, and it is empty right after each clear_cache call (while
\* the next batch has not been started).
C37_CacheBoundedByBatch ==
    engine = "driver" =>
        /\ cache_keys \subseteq Range(batch_dates)
        /\ cache_keys \subseteq {md_days[i].date : i \in 1..Len(md_days)}
        /\ Cardinality(cache_keys) <= BATCH_SIZE
        /\ dpc \in {"batch", "finished"} => cache_keys = {}

\* C37 witness: a first batch filled the cache to BATCH_SIZE keys and was
\* cleared, and a date of the next batch has been cached.
C37_Witness ==
    /\ engine = "driver" /\ clear_log /= <<>>
    /\ Cardinality(clear_log[1].cached) = BATCH_SIZE
    /\ cache_keys /= {}
    /\ cache_keys \cap clear_log[1].cached = {}

====
